---------------------------- MODULE Spec2Model ----------------------------
(***************************************************************************)
(* The content-selection and translation-caching pipeline of cvserve:      *)
(* translate_cv and its single-slot cache (CV/cvserve/translate.py), the   *)
(* build command with its file-watch mode (CV/cvserve/build.py), the       *)
(* loader (CV/cvserve/utils.py) and the point where the renderer saves a   *)
(* document (CV/cvserve/docx_builder.py).                                  *)
(*                                                                         *)
(* Spec      : a sequence of one-shot `build` invocations, each its own    *)
(*             process, interleaved with what the user does between them   *)
(*             (edit the source, set or unset the credential, delete the   *)
(*             cache file).                                                *)
(* SpecWatch : one `build --watch` process after its initial build: the    *)
(*             observer dispatches file events to RebuildHandler while     *)
(*             time passes and the user edits files; SpecWatchLive adds    *)
(*             the fairness of its scheduling.                             *)
(* SpecRequests, SpecCommands : the build, bio and tailor commands         *)
(*             (CV/cvserve/bio.py, CV/cvserve/tailor.py) run one after     *)
(*             another.                                                    *)
(* SpecSelect, SpecDates, SpecUnwrap, SpecTailored, SpecLegacy : one       *)
(*             function applied to one input: the deterministic selector,  *)
(*             parse_start_date, the unwrapping of a response, the         *)
(*             rendering of the experience section, and the translate_cv   *)
(*             of the single-file program (CV/cvserve.py) beside the       *)
(*             package's.                                                  *)
(***************************************************************************)
EXTENDS Integers, Sequences, FiniteSets, TLC

(***************************************************************************)
(* Bounds of the model.                                                    *)
(***************************************************************************)
\* Number of distinct contents the source file cv.yaml takes.
NumVersions == 2
\* Ticks to which the watch clock runs (TicksPerSecond ticks are a second).
MaxTime == 4
\* Longest rebuild, in ticks.
MaxBuildTicks == 2
\* Events the observer holds undispatched.
MaxQueue == 1

\* Resolution of the model's clock: ticks in one second of time.time().
TicksPerSecond == 2

\* Runs of characters between white space in a date string.
MaxParts == 3

\* Experience entries of a Profile, and bullets of an entry.
MaxEntries == 5

MaxBullets == 3

\* Tokens of a summary text, and pieces of one between ". ".
MaxSummaryLen == 5

MaxSentences == 5

\* Items of a skill list.
MaxSkills == 20

\* Lines of the body of a response.
MaxLines == 3

\* Experience entries of a Profile that is tailored.
MaxTailored == 3

(***************************************************************************)
(* YAML values.  A Profile, a Bio and a tailored Profile are mappings; a   *)
(* YAML document may also be a scalar, a list or null.  src is the source  *)
(* content a mapping derives from, lang the language of its texts.         *)
(***************************************************************************)
Versions == 1..NumVersions

Langs == {"en", "de"}

MappingShapes == {"profile", "bio", "tailored"}

Mappings == [shape : MappingShapes, src : Versions, lang : Langs]

Scalar == [shape |-> "scalar", src |-> 0, lang |-> "none"]

List == [shape |-> "list", src |-> 0, lang |-> "none"]

Null == [shape |-> "null", src |-> 0, lang |-> "none"]

NoValue == [shape |-> "none", src |-> 0, lang |-> "none"]

Values == Mappings \cup {Scalar, List, Null}

IsMapping(v) == v.shape \in MappingShapes

\* The Profile held by the source file at content version n.
Profile(n) == [shape |-> "profile", src |-> n, lang |-> "en"]

(***************************************************************************)
(* Text: a sequence of lines.  A line is a fence (``` followed by a        *)
(* language tag, possibly empty), a blank line, the i-th line of the YAML  *)
(* serialisation of a value, or a line that is no YAML.                    *)
(***************************************************************************)
Fence(tag) == [kind |-> "fence", tag |-> tag, v |-> NoValue, i |-> 0]

Blank == [kind |-> "blank", tag |-> "", v |-> NoValue, i |-> 0]

Junk == [kind |-> "junk", tag |-> "", v |-> NoValue, i |-> 0]

YamlLine(v, i) == [kind |-> "yaml", tag |-> "", v |-> v, i |-> i]

\* yaml.dump(v): a mapping serialises to several lines, anything else to one.
Dump(v) == IF IsMapping(v) THEN <<YamlLine(v, 1), YamlLine(v, 2)>>
           ELSE <<YamlLine(v, 1)>>

IsBlank(line) == line.kind = "blank"

NotBlank(line) == ~IsBlank(line)

\* str.strip(): leading and trailing white space (here: blank lines) removed.
RECURSIVE LStrip(_)
LStrip(t) == IF t # <<>> /\ IsBlank(Head(t)) THEN LStrip(Tail(t)) ELSE t

RECURSIVE RStrip(_)
RStrip(t) == IF t # <<>> /\ IsBlank(t[Len(t)])
             THEN RStrip(SubSeq(t, 1, Len(t) - 1)) ELSE t

Strip(t) == RStrip(LStrip(t))

\* text.startswith("```")
StartsWithFence(t) == t # <<>> /\ t[1].kind = "fence"

\* text.endswith("```"): the last line is a fence with nothing after the ticks.
EndsWithFence(t) == t # <<>> /\ t[Len(t)].kind = "fence" /\ t[Len(t)].tag = ""

ParseError == [shape |-> "ParseError", src |-> 0, lang |-> "none"]

\* yaml.safe_load(text): the value a text is the serialisation of (the one
\* its first line begins); null for an empty document; a YAMLError for a
\* text holding a fence (a back-tick starts no YAML token), a junk line, or
\* lines of no single document.
SafeLoad(t) ==
    LET c == SelectSeq(t, NotBlank)
    IN  IF c = <<>> THEN Null
        ELSE IF c[1].kind = "yaml" /\ c = Dump(c[1].v) THEN c[1].v
        ELSE ParseError

\* A variant that leaves a closing fence in place.
UnwrapTailKeepingFence(t) == t

\* The response-unwrapping rule of translate_cv (translate.py:58-62).
UnwrapHead(t) == IF StartsWithFence(t) THEN Tail(t) ELSE t

UnwrapTail(t) == IF EndsWithFence(t) THEN SubSeq(t, 1, Len(t) - 1) ELSE t

Unwrap(text) == UnwrapTail(UnwrapHead(Strip(text)))


(***************************************************************************)
(* The file system: the source file, and under OUTPUT_DIR the cache file   *)
(* and the generated documents.                                            *)
(***************************************************************************)
CACHE_FILE == ".cv_de_cache.yaml"

\* build_docx's filename for a language (docx_builder.py:527).
DocPath(lang) == IF lang = "en" THEN "CV_EN.docx" ELSE "CV_DE.docx"

\* build_bio_docx's filename for a language (bio.py:311).
BioPath(lang) == IF lang = "en" THEN "Bio_EN.docx" ELSE "Bio_DE.docx"

\* tailor's filename for a language and the one description file of the
\* model (tailor.py:101-102).
TailoredPath(lang) ==
    IF lang = "en" THEN "CV_EN_tailored.docx" ELSE "CV_DE_tailored.docx"

OutputPaths ==
    {CACHE_FILE} \cup {DocPath(l) : l \in Langs} \cup {BioPath(l) : l \in Langs}
    \cup {TailoredPath(l) : l \in Langs}

Absent == [kind |-> "absent"]

YamlFile(text) == [kind |-> "yaml", text |-> text]

Docx(cv, lang) == [kind |-> "docx", cv |-> cv, lang |-> lang]

Exists(fs, path) == fs[path].kind # "absent"

VARIABLES
    source,        \* the source file cv.yaml: [state, ver]
    api_key,       \* whether ANTHROPIC_API_KEY is set in the process environment
    files,         \* OUTPUT_DIR: path -> Absent, a YAML file or a document
    request,       \* the last one-shot build: its options, error, written files
    call,          \* the translate_cv call of the last one-shot build, if any
    observer,      \* watch mode: "none", "running", "dead" or "stopped"
    config,        \* watch mode: the options the process was started with
    last_build,    \* watch mode: RebuildHandler._last_build, in ticks
    clock,         \* watch mode: ticks elapsed since the observer started
    events,        \* watch mode: events the observer has not dispatched yet
    handled,       \* watch mode: what the last on_modified dispatch did
    arg,           \* function evaluation: the argument of the function applied
    ret            \* function evaluation: what the function returned or raised

vars == <<source, api_key, files, request, call, observer, config,
          last_build, clock, events, handled, arg, ret>>

watchVars == <<observer, config, last_build, clock, events, handled>>

evalVars == <<arg, ret>>

(***************************************************************************)
(* load_cv (utils.py:115-118): open() raises FileNotFoundError for a       *)
(* missing file, yaml.safe_load a YAMLError for a malformed one.           *)
(***************************************************************************)
Ok(v) == [err |-> "", v |-> v]

Raise(e) == [err |-> e, v |-> NoValue]

load_cv(file) ==
    IF file.kind = "absent" THEN Raise("NotFound")
    ELSE IF SafeLoad(file.text) = ParseError THEN Raise("ParseError")
    ELSE Ok(SafeLoad(file.text))

\* The source file as a file: a Profile's YAML, a text that is no YAML, or
\* no file.
SourceStates == {"ok", "malformed", "missing"}

SourceFile(s) ==
    CASE s.state = "ok" -> YamlFile(Dump(Profile(s.ver)))
      [] s.state = "malformed" -> YamlFile(<<Junk>>)
      [] OTHER -> Absent

(***************************************************************************)
(* The remote text-generation service, asked to translate cv: it fails, or *)
(* answers with a text.  The answers cover the translation bare and        *)
(* fenced (with and without a language tag, with surrounding blank         *)
(* lines), YAML that is no mapping, the empty fence, and text that is no   *)
(* YAML.                                                                   *)
(***************************************************************************)
\* What a faithful translation of cv is: same keys and structure, German texts.
Translation(cv) == [cv EXCEPT !.lang = "de"]

Answer(text) == [raises |-> FALSE, text |-> text]

RemoteFailure == [raises |-> TRUE, text |-> <<>>]

Responses(cv) ==
    { RemoteFailure,
      Answer(Dump(Translation(cv))),
      Answer(<<Fence("yaml")>> \o Dump(Translation(cv)) \o <<Fence("")>>),
      Answer(<<Blank, Fence("")>> \o Dump(Translation(cv)) \o <<Fence(""), Blank>>),
      Answer(Dump(Scalar)),
      Answer(Dump(List)),
      Answer(<<Fence("")>>),
      Answer(<<Junk>> \o Dump(Translation(cv))) }

(***************************************************************************)
(* translate_cv (translate.py:11-71).  The result of a call: the error it  *)
(* ends with ("" when it returns), the value returned, the file system it  *)
(* leaves, the number of remote calls made and the branch taken.  The      *)
(* client library is a dependency of the installation and importable in    *)
(* every state modelled, so the ImportError exit (lines 18-22) is not      *)
(* taken.                                                                  *)
(***************************************************************************)
Outcome(err, result, fs, remote_calls, via) ==
    [err |-> err, result |-> result, fs |-> fs,
     remote_calls |-> remote_calls, via |-> via]

\* Variants of the definitions below, each changed the way a slip in the
\* code would change it; the properties are checked to tell them apart.
UseCacheInverted(retranslate, fs) == retranslate /\ Exists(fs, CACHE_FILE)

UseCacheIgnoringFlag(retranslate, fs) == Exists(fs, CACHE_FILE)

NoCredentialIgnored(key) == FALSE

FallBackNever(fs) == FALSE

\* The cache file opened "a" instead of "w".
WriteCacheAppend(fs, v) ==
    [fs EXCEPT ![CACHE_FILE] =
        YamlFile((IF Exists(fs, CACHE_FILE) THEN fs[CACHE_FILE].text
                  ELSE <<>>) \o Dump(v))]

\* translate.py:14
UseCache(retranslate, fs) == ~retranslate /\ Exists(fs, CACHE_FILE)

\* translate.py:24-30
NoCredential(key) == ~key

FallBack(fs) == Exists(fs, CACHE_FILE)

\* translate.py:66-68: the cache file is opened "w" and the value dumped.
WriteCache(fs, v) == [fs EXCEPT ![CACHE_FILE] = YamlFile(Dump(v))]

\* translate.py:16 and 28.
ReadCache(fs, via) ==
    LET r == load_cv(fs[CACHE_FILE])
    IN  Outcome(r.err, r.v, fs, 0, via)

\* A variant that writes the unwrapped answer to the cache file before
\* parsing it.
RemoteTranslateWritingFirst(fs, resp) ==
    IF resp.raises THEN Outcome("RemoteError", NoValue, fs, 1, "remote")
    ELSE LET translated_cv == SafeLoad(Unwrap(resp.text))
             written == [fs EXCEPT ![CACHE_FILE] = YamlFile(Unwrap(resp.text))]
         IN  IF translated_cv = ParseError
             THEN Outcome("ParseError", NoValue, written, 1, "remote")
             ELSE Outcome("", translated_cv, WriteCache(fs, translated_cv),
                          1, "remote")

\* translate.py:37-71: the remote call, the unwrapping, the parse, the write.
RemoteTranslate(fs, resp) ==
    IF resp.raises THEN Outcome("RemoteError", NoValue, fs, 1, "remote")
    ELSE LET translated_cv == SafeLoad(Unwrap(resp.text))
         IN  IF translated_cv = ParseError
             THEN Outcome("ParseError", NoValue, fs, 1, "remote")
             ELSE Outcome("", translated_cv, WriteCache(fs, translated_cv),
                          1, "remote")

\* A variant whose cache is keyed by the content of the source.
translate_cv_keyed(cv, retranslate, fs, key, resp) ==
    IF /\ UseCache(retranslate, fs)
       /\ SafeLoad(fs[CACHE_FILE].text).src = cv.src
    THEN ReadCache(fs, "cache")
    ELSE IF NoCredential(key)
         THEN IF FallBack(fs) THEN ReadCache(fs, "fallback")
              ELSE Outcome("SystemExit", NoValue, fs, 0, "none")
         ELSE RemoteTranslate(fs, resp)

translate_cv(cv, retranslate, fs, key, resp) ==
    IF UseCache(retranslate, fs) THEN ReadCache(fs, "cache")
    ELSE IF NoCredential(key)
         THEN IF FallBack(fs) THEN ReadCache(fs, "fallback")
              ELSE Outcome("SystemExit", NoValue, fs, 0, "none")
         ELSE RemoteTranslate(fs, resp)

(***************************************************************************)
(* build_docx (docx_builder.py:460-530).  The builders read the Profile's  *)
(* keys (cv["name"], cv["contact"], cv["profile"], ...): a Profile or a    *)
(* tailored Profile renders; a Bio has no "profile" key (KeyError) and a   *)
(* scalar, a list or null has no keys at all (AttributeError).  The file   *)
(* is written by the last statement, doc.save, so a failed render writes   *)
(* nothing.                                                                *)
(***************************************************************************)
Renders(cv) == cv.shape \in {"profile", "tailored"}

build_docx(cv, lang, fs) ==
    IF Renders(cv)
    THEN [err |-> "", fs |-> [fs EXCEPT ![DocPath(lang)] = Docx(cv, lang)]]
    ELSE [err |-> "RenderError", fs |-> fs]

(***************************************************************************)
(* do_build (build.py:22-36), for a run without --pdf.  A build state      *)
(* holds the error that ended the run ("" while it goes on), the file      *)
(* system, the documents written so far and the record of the              *)
(* translate_cv call made.                                                 *)
(***************************************************************************)
NoCall == [made |-> FALSE]

CallRecord(cv, retranslate, key, fs, t) ==
    [made |-> TRUE, cv |-> cv, retranslate |-> retranslate, key |-> key,
     before |-> fs[CACHE_FILE], err |-> t.err, result |-> t.result,
     via |-> t.via, remote_calls |-> t.remote_calls,
     after |-> t.fs[CACHE_FILE],
     others_kept |-> \A p \in OutputPaths \ {CACHE_FILE} : t.fs[p] = fs[p]]

BuildState(fs) == [err |-> "", fs |-> fs, written |-> {}, call |-> NoCall]

\* build.py:22: langs = [lang] if lang else ["en", "de"]
LangsOf(lang) == IF lang = "" THEN <<"en", "de">> ELSE <<lang>>

\* A variant of the iteration that translates for every language.
BuildOneTranslatingAll(st, cv_en, l, retranslate, key, resp) ==
    LET t == translate_cv(cv_en, retranslate, st.fs, key, resp)
        c == CallRecord(cv_en, retranslate, key, st.fs, t)
    IN  IF t.err # ""
        THEN [st EXCEPT !.err = t.err, !.call = c]
        ELSE LET d == build_docx(t.result, l, t.fs)
             IN  IF d.err # ""
                 THEN [err |-> d.err, fs |-> t.fs,
                       written |-> st.written, call |-> c]
                 ELSE [err |-> "", fs |-> d.fs,
                       written |-> st.written \cup {DocPath(l)}, call |-> c]

\* One iteration of the loop (build.py:27-35).
BuildOne(st, cv_en, l, retranslate, key, resp) ==
    LET t == IF l = "de"
             THEN translate_cv(cv_en, retranslate, st.fs, key, resp)
             ELSE Outcome("", cv_en, st.fs, 0, "none")
        c == IF l = "de"
             THEN CallRecord(cv_en, retranslate, key, st.fs, t)
             ELSE st.call
    IN  IF t.err # ""
        THEN [st EXCEPT !.err = t.err, !.call = c]
        ELSE LET d == build_docx(t.result, l, t.fs)
             IN  IF d.err # ""
                 THEN [err |-> d.err, fs |-> t.fs,
                       written |-> st.written, call |-> c]
                 ELSE [err |-> "", fs |-> d.fs,
                       written |-> st.written \cup {DocPath(l)}, call |-> c]

RECURSIVE BuildLoop(_, _, _, _, _, _)
BuildLoop(st, cv_en, langs, retranslate, key, resp) ==
    IF langs = <<>> \/ st.err # "" THEN st
    ELSE BuildLoop(BuildOne(st, cv_en, Head(langs), retranslate, key, resp),
                   cv_en, Tail(langs), retranslate, key, resp)

do_build(langs, retranslate, src, fs, key, resp) ==
    LET cv_en == load_cv(SourceFile(src))
    IN  IF cv_en.err # "" THEN [BuildState(fs) EXCEPT !.err = cv_en.err]
        ELSE BuildLoop(BuildState(fs), cv_en.v, langs, retranslate, key, resp)

\* What the remote may answer during a build of the source as it is.
BuildResponses(src) ==
    IF src.state = "ok" THEN Responses(Profile(src.ver)) ELSE {RemoteFailure}

RequestRecord(langs, retranslate, b) ==
    [made |-> TRUE, langs |-> langs, retranslate |-> retranslate,
     err |-> b.err, written |-> b.written]

NoRequest == [made |-> FALSE]

(***************************************************************************)
(* Spec: one-shot builds (build.py:14-42 with watch = False), each a       *)
(* process of its own, and the user's actions between them.                *)
(***************************************************************************)
LangOptions == {"", "en", "de"}

SourceValues == [state : {"ok"}, ver : Versions]
                \cup {[state |-> "malformed", ver |-> 0],
                      [state |-> "missing", ver |-> 0]}

NoFiles == [p \in OutputPaths |-> Absent]

NoConfig == [langs |-> <<>>, retranslate |-> FALSE]

NoDispatch == [made |-> FALSE]

NoArg == [given |-> FALSE]

NoRet == [done |-> FALSE]

EvalIdle == arg = NoArg /\ ret = NoRet

WatchIdle ==
    /\ observer = "none"
    /\ config = NoConfig
    /\ last_build = 0
    /\ clock = 0
    /\ events = <<>>
    /\ handled = NoDispatch

\* The argument a function is applied to, and what it returned or raised.
Given(x) == [given |-> TRUE, x |-> x]

Returned(r) == [done |-> TRUE, err |-> r.err, v |-> r.v]

\* No command has run and none is running.
Quiescent ==
    /\ source = [state |-> "ok", ver |-> 1]
    /\ api_key = FALSE
    /\ files = NoFiles
    /\ request = NoRequest
    /\ call = NoCall
    /\ WatchIdle

Init ==
    /\ source = [state |-> "ok", ver |-> 1]
    /\ api_key \in BOOLEAN
    /\ files = NoFiles
    /\ request = NoRequest
    /\ call = NoCall
    /\ WatchIdle
    /\ EvalIdle

\* The build command, run to its end (build.py:14-42).
BuildGiven(lang, retranslate, resp) ==
    LET b == do_build(LangsOf(lang), retranslate, source, files,
                      api_key, resp)
    IN  /\ files' = b.fs
        /\ request' = RequestRecord(LangsOf(lang), retranslate, b)
        /\ call' = b.call
        /\ UNCHANGED <<source, api_key, watchVars, evalVars>>

Build ==
    \E lang \in LangOptions, retranslate \in BOOLEAN :
      \E resp \in BuildResponses(source) :
        BuildGiven(lang, retranslate, resp)

\* The user edits, breaks, deletes or restores the source file.
EditSource ==
    /\ source' \in SourceValues \ {source}
    /\ UNCHANGED <<api_key, files, request, call, watchVars, evalVars>>

\* The user exports or unsets ANTHROPIC_API_KEY before the next run.
SetCredential ==
    /\ api_key' = ~api_key
    /\ UNCHANGED <<source, files, request, call, watchVars, evalVars>>

\* The user deletes the cache file.
RemoveCacheFile ==
    /\ Exists(files, CACHE_FILE)
    /\ files' = [files EXCEPT ![CACHE_FILE] = Absent]
    /\ UNCHANGED <<source, api_key, request, call, watchVars, evalVars>>

Next == Build \/ EditSource \/ SetCredential \/ RemoveCacheFile

Spec == Init /\ [][Next]_vars

(***************************************************************************)
(* The bio command (bio.py:317-349), run without --pdf.  With a credential *)
(* the remote service is asked to condense the Profile into a Bio          *)
(* (select_bio_content); without one the Bio is selected locally           *)
(* (select_bio_content_deterministic).                                     *)
(***************************************************************************)
\* What a faithful condensation of cv is: a Bio of the same source content.
Condensed(cv) == [cv EXCEPT !.shape = "bio"]

\* What the remote may answer when asked to condense cv.
CondenseResponses(cv) ==
    { RemoteFailure,
      Answer(Dump(Condensed(cv))),
      Answer(<<Fence("yaml")>> \o Dump(Condensed(cv)) \o <<Fence("")>>),
      Answer(Dump(Scalar)),
      Answer(<<Junk>> \o Dump(Condensed(cv))) }

\* The response-unwrapping rule of select_bio_content (bio.py:81-85).
UnwrapBioHead(t) == IF StartsWithFence(t) THEN Tail(t) ELSE t

UnwrapBioTail(t) == IF EndsWithFence(t) THEN SubSeq(t, 1, Len(t) - 1) ELSE t

UnwrapBio(text) == UnwrapBioTail(UnwrapBioHead(Strip(text)))

Selection(err, v, remote_calls, via) ==
    [err |-> err, v |-> v, remote_calls |-> remote_calls, via |-> via]

\* A variant that selects locally when the remote call or the parse fails.
CondenseOrSelectLocally(cv, resp) ==
    IF resp.raises \/ SafeLoad(UnwrapBio(resp.text)) = ParseError
    THEN Selection("", Condensed(cv), 1, "remote")
    ELSE Selection("", SafeLoad(UnwrapBio(resp.text)), 1, "remote")

\* bio.py:32-87: the remote call, the unwrapping, the parse.
Condense(cv, resp) ==
    IF resp.raises THEN Selection("RemoteError", NoValue, 1, "remote")
    ELSE LET bio_data == SafeLoad(UnwrapBio(resp.text))
         IN  IF bio_data = ParseError
             THEN Selection("ParseError", NoValue, 1, "remote")
             ELSE Selection("", bio_data, 1, "remote")

\* select_bio_content (bio.py:24-87); get_anthropic_client (utils.py:139-152)
\* exits when the credential is missing.
select_bio_content(cv, key, resp) ==
    IF ~key THEN Selection("SystemExit", NoValue, 0, "none")
    ELSE Condense(cv, resp)

\* The Bio select_bio_content_deterministic (bio.py:90-144) returns for the
\* Profile cv.
DeterministicBio(cv) == Selection("", Condensed(cv), 0, "deterministic")

\* build_bio_docx (bio.py:147-314) reads bio_data["name"] and
\* bio_data["title"] and every other key with .get: any mapping renders, a
\* scalar, a list or null does not.  The file is written by the last
\* statement, doc.save.
build_bio_docx(bio_data, lang, fs) ==
    IF IsMapping(bio_data)
    THEN [err |-> "", fs |-> [fs EXCEPT ![BioPath(lang)] = Docx(bio_data, lang)]]
    ELSE [err |-> "RenderError", fs |-> fs]

BioResult(err, fs, written, sel, c) ==
    [err |-> err, fs |-> fs, written |-> written, select |-> sel, call |-> c]

NoSelection == Selection("", NoValue, 0, "none")

\* bio.py:334-338: the translation for "de" and the rendering.
BioRender(bio_data, lang, fs, key, sel, resp) ==
    LET t == IF lang = "de" THEN translate_cv(bio_data, TRUE, fs, key, resp)
             ELSE Outcome("", bio_data, fs, 0, "none")
        c == IF lang = "de" THEN CallRecord(bio_data, TRUE, key, fs, t)
             ELSE NoCall
    IN  IF t.err # "" THEN BioResult(t.err, t.fs, {}, sel, c)
        ELSE LET d == build_bio_docx(t.result, lang, t.fs)
             IN  IF d.err # "" THEN BioResult(d.err, t.fs, {}, sel, c)
                 ELSE BioResult("", d.fs, {BioPath(lang)}, sel, c)

\* A variant that asks the remote service whether or not a credential is set.
bioAlwaysRemote(lang, src, fs, key, condensed, translated) ==
    LET cv_en == load_cv(SourceFile(src))
    IN  IF cv_en.err # "" THEN BioResult(cv_en.err, fs, {}, NoSelection, NoCall)
        ELSE LET sel == select_bio_content(cv_en.v, key, condensed)
             IN  IF sel.err # "" THEN BioResult(sel.err, fs, {}, sel, NoCall)
                 ELSE BioRender(sel.v, lang, fs, key, sel, translated)

\* bio (bio.py:317-349).
bio(lang, src, fs, key, condensed, translated) ==
    LET cv_en == load_cv(SourceFile(src))
    IN  IF cv_en.err # "" THEN BioResult(cv_en.err, fs, {}, NoSelection, NoCall)
        ELSE LET sel == IF key THEN select_bio_content(cv_en.v, key, condensed)
                        ELSE DeterministicBio(cv_en.v)
             IN  IF sel.err # "" THEN BioResult(sel.err, fs, {}, sel, NoCall)
                 ELSE BioRender(sel.v, lang, fs, key, sel, translated)

\* The remote has failed the caller: the call raised, or what it answered
\* unwraps to no YAML document.
Failed(resp) == resp.raises \/ SafeLoad(Unwrap(resp.text)) = ParseError

\* What the remote may answer during a bio request: it is asked to condense
\* when the credential is set, and then to translate when lang is "de".
BioCondenseResponses(src, key) ==
    IF src.state = "ok" /\ key THEN CondenseResponses(Profile(src.ver))
    ELSE {RemoteFailure}

BioTranslateResponses(src, key, lang) ==
    IF src.state = "ok" /\ key /\ lang = "de"
    THEN Responses(Condensed(Profile(src.ver)))
    ELSE {RemoteFailure}

BioRequestRecord(lang, key, condensed, b) ==
    [made |-> TRUE, cmd |-> "bio", lang |-> lang, key |-> key,
     condense_failed |-> Failed(condensed), err |-> b.err,
     written |-> b.written, select |-> b.select]

(***************************************************************************)
(* SpecRequests: the build and bio commands run one after another, each a  *)
(* process of its own, against a source file that stays as it is; between  *)
(* the runs the user sets or unsets the credential or deletes the cache.   *)
(***************************************************************************)
InitRequests ==
    /\ source \in SourceValues
    /\ api_key \in BOOLEAN
    /\ files = NoFiles
    /\ request = NoRequest
    /\ call = NoCall
    /\ WatchIdle
    /\ EvalIdle

\* The bio command, run to its end (bio.py:317-349).
BioGiven(lang, condensed, translated) ==
    LET b == bio(lang, source, files, api_key, condensed, translated)
    IN  /\ files' = b.fs
        /\ request' = BioRequestRecord(lang, api_key, condensed, b)
        /\ call' = b.call
        /\ UNCHANGED <<source, api_key, watchVars, evalVars>>

Bio ==
    \E lang \in Langs :
      \E condensed \in BioCondenseResponses(source, api_key),
         translated \in BioTranslateResponses(source, api_key, lang) :
        BioGiven(lang, condensed, translated)

NextRequests == Build \/ Bio \/ SetCredential \/ RemoveCacheFile

SpecRequests == InitRequests /\ [][NextRequests]_vars

(***************************************************************************)
(* The tailor command (tailor.py:70-115), run without --pdf: the remote    *)
(* service is asked to tailor the Profile to a description (tailor_cv),    *)
(* the result is translated for "de", rendered by build_docx and the       *)
(* document renamed.                                                       *)
(***************************************************************************)
\* What a faithful tailoring of cv is: the same keys, the content reordered
\* and rephrased.
Tailoring(cv) == [cv EXCEPT !.shape = "tailored"]

\* What the remote may answer when asked to tailor cv.
TailorResponses(cv) ==
    { RemoteFailure,
      Answer(Dump(Tailoring(cv))),
      Answer(<<Fence("yaml")>> \o Dump(Tailoring(cv)) \o <<Fence("")>>),
      Answer(Dump(Scalar)),
      Answer(<<Junk>> \o Dump(Tailoring(cv))) }

\* The response-unwrapping rule of tailor_cv (tailor.py:54-58).
UnwrapTailorHead(t) == IF StartsWithFence(t) THEN Tail(t) ELSE t

UnwrapTailorTail(t) == IF EndsWithFence(t) THEN SubSeq(t, 1, Len(t) - 1) ELSE t

UnwrapTailor(text) == UnwrapTailorTail(UnwrapTailorHead(Strip(text)))

\* tailor_cv (tailor.py:15-60); get_anthropic_client (utils.py:139-152)
\* exits when the credential is missing.
tailor_cv(cv, key, resp) ==
    IF ~key THEN Selection("SystemExit", NoValue, 0, "none")
    ELSE IF resp.raises THEN Selection("RemoteError", NoValue, 1, "remote")
    ELSE LET tailored_cv == SafeLoad(UnwrapTailor(resp.text))
         IN  IF tailored_cv = ParseError
             THEN Selection("ParseError", NoValue, 1, "remote")
             ELSE Selection("", tailored_cv, 1, "remote")

\* The description file: missing, empty but for white space, or a text.
Descriptions == {"missing", "empty", "text"}

\* Path.rename (tailor.py:103): the file moves, replacing any file at the
\* target.
Rename(fs, from, to) == [fs EXCEPT ![to] = fs[from], ![from] = Absent]

\* A variant of the rendering that saves the document under the tailored
\* name at once.
TailorRenderInPlace(tailored_cv, lang, fs) ==
    IF Renders(tailored_cv)
    THEN [err |-> "",
          fs |-> [fs EXCEPT ![TailoredPath(lang)] = Docx(tailored_cv, lang)]]
    ELSE [err |-> "RenderError", fs |-> fs]

\* tailor.py:96-103: build_docx saves the document under the standard
\* CV's name, and the file is then renamed.
TailorRender(tailored_cv, lang, fs) ==
    LET d == build_docx(tailored_cv, lang, fs)
    IN  IF d.err # "" THEN d
        ELSE [err |-> "", fs |-> Rename(d.fs, DocPath(lang), TailoredPath(lang))]

TailorResult(err, fs, written, c) ==
    [err |-> err, fs |-> fs, written |-> written, call |-> c]

\* tailor.py:91-103: the translation for "de", the rendering, the rename.
TailorBuild(tailored_cv, lang, fs, key, resp) ==
    LET t == IF lang = "de" THEN translate_cv(tailored_cv, TRUE, fs, key, resp)
             ELSE Outcome("", tailored_cv, fs, 0, "none")
        c == IF lang = "de" THEN CallRecord(tailored_cv, TRUE, key, fs, t)
             ELSE NoCall
    IN  IF t.err # "" THEN TailorResult(t.err, t.fs, {}, c)
        ELSE LET d == TailorRender(t.result, lang, t.fs)
             IN  IF d.err # "" THEN TailorResult(d.err, t.fs, {}, c)
                 ELSE TailorResult("", d.fs, {TailoredPath(lang)}, c)

\* tailor (tailor.py:70-115).
tailor(description, lang, src, fs, key, tailored, translated) ==
    IF description # "text" THEN TailorResult("Exit", fs, {}, NoCall)
    ELSE LET cv_en == load_cv(SourceFile(src))
         IN  IF cv_en.err # "" THEN TailorResult(cv_en.err, fs, {}, NoCall)
             ELSE LET sel == tailor_cv(cv_en.v, key, tailored)
                  IN  IF sel.err # "" THEN TailorResult(sel.err, fs, {}, NoCall)
                      ELSE TailorBuild(sel.v, lang, fs, key, translated)

\* What the remote may answer during a tailor request: it is asked to
\* tailor when the request comes that far, and then to translate when lang
\* is "de".
TailorCallResponses(description, src, key) ==
    IF description = "text" /\ src.state = "ok" /\ key
    THEN TailorResponses(Profile(src.ver))
    ELSE {RemoteFailure}

TailorTranslateResponses(description, src, key, lang) ==
    IF description = "text" /\ src.state = "ok" /\ key /\ lang = "de"
    THEN Responses(Tailoring(Profile(src.ver)))
    ELSE {RemoteFailure}

TailorRequestRecord(description, lang, key, b) ==
    [made |-> TRUE, cmd |-> "tailor", lang |-> lang, key |-> key,
     description |-> description, err |-> b.err, written |-> b.written]

(***************************************************************************)
(* SpecCommands: the build, bio and tailor commands run one after another  *)
(* in any order, each a process of its own, against a source file that     *)
(* stays as it is; between the runs the user sets or unsets the credential *)
(* or deletes the cache.  The remote service fails or answers faithfully,  *)
(* with the bare YAML of a mapping; what the commands do with its other    *)
(* answers is the matter of Spec and SpecRequests.                         *)
(***************************************************************************)
Faithful(responses) ==
    {r \in responses : r.raises \/ (SafeLoad(r.text) # ParseError
                                    /\ IsMapping(SafeLoad(r.text))
                                    /\ r.text = Dump(SafeLoad(r.text)))}

InitCommands ==
    /\ source \in SourceValues
    /\ api_key \in BOOLEAN
    /\ files = NoFiles
    /\ request = NoRequest
    /\ call = NoCall
    /\ WatchIdle
    /\ EvalIdle

\* The build command, run to its end (build.py:14-42).
BuildCommand ==
    \E lang \in LangOptions, retranslate \in BOOLEAN :
      \E resp \in Faithful(BuildResponses(source)) :
        BuildGiven(lang, retranslate, resp)

\* The bio command, run to its end (bio.py:317-349).
BioCommand ==
    \E lang \in Langs :
      \E condensed \in Faithful(BioCondenseResponses(source, api_key)),
         translated \in Faithful(BioTranslateResponses(source, api_key, lang)) :
        BioGiven(lang, condensed, translated)

\* The tailor command, run to its end (tailor.py:70-115).
Tailor ==
    \E description \in Descriptions, lang \in Langs :
      \E tailored \in Faithful(TailorCallResponses(description, source,
                                                   api_key)),
         translated \in Faithful(TailorTranslateResponses(description, source,
                                                          api_key, lang)) :
        LET b == tailor(description, lang, source, files, api_key,
                        tailored, translated)
        IN  /\ files' = b.fs
            /\ request' = TailorRequestRecord(description, lang, api_key, b)
            /\ call' = b.call
            /\ UNCHANGED <<source, api_key, watchVars, evalVars>>

NextCommands ==
    BuildCommand \/ BioCommand \/ Tailor \/ SetCredential \/ RemoveCacheFile

SpecCommands == InitCommands /\ [][NextCommands]_vars

(***************************************************************************)
(* SpecWatch: `build --watch` (build.py:44-79).  The process has made its  *)
(* initial build and started the observer; RebuildHandler.on_modified      *)
(* runs on the observer's thread, one event at a time.                     *)
(***************************************************************************)
\* time.time() in ticks: the epoch lies more than a second before the start.
EpochTicks == TicksPerSecond

Time(c) == EpochTicks + c

SOURCE == "cv.yaml"

SourceEvent == [is_directory |-> FALSE, src_path |-> SOURCE]

OtherFileEvent == [is_directory |-> FALSE, src_path |-> "README.md"]

DirectoryEvent == [is_directory |-> TRUE, src_path |-> "output"]

\* Cache files earlier runs may have left: none, or a translated Profile.
EarlierCaches ==
    {Absent} \cup {YamlFile(Dump(Translation(Profile(n)))) : n \in Versions}

\* build.py:38-71: the initial build succeeded (a failure ends the process
\* before the observer exists), the handler is constructed with
\* _last_build = 0 and the observer started.
InitWatch ==
    \E lang \in LangOptions, retranslate \in BOOLEAN, key \in BOOLEAN,
       cache \in EarlierCaches :
      \E resp \in Responses(Profile(1)) :
        LET src == [state |-> "ok", ver |-> 1]
            fs == [NoFiles EXCEPT ![CACHE_FILE] = cache]
            b == do_build(LangsOf(lang), retranslate, src, fs, key, resp)
        IN  /\ b.err = ""
            /\ source = src
            /\ api_key = key
            /\ files = b.fs
            /\ request = NoRequest
            /\ call = NoCall
            /\ observer = "running"
            /\ config = [langs |-> LangsOf(lang), retranslate |-> retranslate]
            /\ last_build = 0
            /\ clock = 0
            /\ events = <<>>
            /\ handled = NoDispatch
            /\ EvalIdle

\* build.py:53-56: events for directories and for other files are dropped.
Relevant(event) == ~event.is_directory /\ event.src_path = SOURCE

\* A variant without the de-bounce.
DebouncedNever(now, last) == FALSE

\* build.py:57-59: the de-bounce.
Debounced(now, last) == now - last < TicksPerSecond

\* build.py:66: `except Exception` catches every build failure that is an
\* Exception; sys.exit raises SystemExit, a BaseException that is none.
Caught(err) == err # "SystemExit"

\* The record of a dispatch: the event, whether the handler's last rebuild
\* had started less than a second before, whether a rebuild started, the
\* error that ended it and whether on_modified caught and logged it.
Dispatch(event, started, err, logged) ==
    [made |-> TRUE, event |-> event,
     recent |-> Time(clock) - last_build < TicksPerSecond,
     started |-> started, err |-> err, logged |-> logged]

\* An event dropped by on_modified's early returns (build.py:53-59).
Ignore(event) ==
    /\ handled' = Dispatch(event, FALSE, "", FALSE)
    /\ UNCHANGED <<source, api_key, files, request, call, observer, config,
                   last_build, clock, evalVars>>

\* The rebuild of on_modified (build.py:60-67), taking d ticks.  An
\* exception that is not caught leaves on_modified and ends the observer's
\* thread; the main thread sleeps on (build.py:74-75).
Rebuild(event) ==
    \E resp \in BuildResponses(source), d \in 0..MaxBuildTicks :
      LET b == do_build(config.langs, config.retranslate, source, files,
                        api_key, resp)
      IN  /\ clock + d <= MaxTime
          /\ last_build' = Time(clock)
          /\ clock' = clock + d
          /\ files' = b.fs
          /\ handled' = Dispatch(event, TRUE, b.err,
                                 b.err # "" /\ Caught(b.err))
          /\ observer' = IF b.err = "" \/ Caught(b.err)
                         THEN "running" ELSE "dead"
          /\ UNCHANGED <<source, api_key, request, call, config, evalVars>>

\* RebuildHandler.on_modified (build.py:52-67) for the next event.
OnModified ==
    /\ observer = "running"
    /\ events # <<>>
    /\ events' = Tail(events)
    /\ IF ~Relevant(Head(events)) THEN Ignore(Head(events))
       ELSE IF Debounced(Time(clock), last_build) THEN Ignore(Head(events))
       ELSE Rebuild(Head(events))

\* The user saves the source file (a new content, a broken one, or the same
\* content again); the observer queues a modification event.
ModifySource ==
    /\ observer \in {"running", "dead"}
    /\ Len(events) < MaxQueue
    /\ source' \in SourceValues \ {[state |-> "missing", ver |-> 0]}
    /\ events' = Append(events, SourceEvent)
    /\ UNCHANGED <<api_key, files, request, call, observer, config,
                   last_build, clock, handled, evalVars>>

\* The user deletes the source file (a deletion is no modification event).
DeleteSource ==
    /\ observer \in {"running", "dead"}
    /\ source.state # "missing"
    /\ source' = [state |-> "missing", ver |-> 0]
    /\ UNCHANGED <<api_key, files, request, call, watchVars, evalVars>>

\* Another file or a subdirectory of the watched directory is modified.
OtherActivity ==
    /\ observer \in {"running", "dead"}
    /\ Len(events) < MaxQueue
    /\ \E event \in {OtherFileEvent, DirectoryEvent} :
         events' = Append(events, event)
    /\ UNCHANGED <<source, api_key, files, request, call, observer, config,
                   last_build, clock, handled, evalVars>>

\* The user deletes the cache file while the process watches.
WatchRemoveCacheFile ==
    /\ observer \in {"running", "dead"}
    /\ Exists(files, CACHE_FILE)
    /\ files' = [files EXCEPT ![CACHE_FILE] = Absent]
    /\ UNCHANGED <<source, api_key, request, call, watchVars, evalVars>>

\* Time passes.
Tick ==
    /\ observer \in {"running", "dead"}
    /\ clock < MaxTime
    /\ clock' = clock + 1
    /\ UNCHANGED <<source, api_key, files, request, call, observer, config,
                   last_build, events, handled, evalVars>>

\* Ctrl+C (build.py:76-79): the observer is stopped and the process ends,
\* and with it the handler, its queue and its clock.
Interrupt ==
    /\ observer \in {"running", "dead"}
    /\ observer' = "stopped"
    /\ config' = NoConfig
    /\ last_build' = 0
    /\ clock' = 0
    /\ events' = <<>>
    /\ handled' = NoDispatch
    /\ UNCHANGED <<source, api_key, files, request, call, evalVars>>

NextWatch ==
    \/ OnModified
    \/ ModifySource
    \/ DeleteSource
    \/ OtherActivity
    \/ WatchRemoveCacheFile
    \/ Tick
    \/ Interrupt

SpecWatch == InitWatch /\ [][NextWatch]_vars

(***************************************************************************)
(* SpecWatchLive: `build --lang en --watch`, started with no credential,   *)
(* with the scheduling the process has.  The observer's thread takes the   *)
(* events it holds one after another and calls on_modified for each        *)
(* (build.py:69-71), and time passes; what the user does is under no       *)
(* obligation.  A build for "en" alone translates nothing, so that every   *)
(* rebuild of a source that is a Profile succeeds.                         *)
(***************************************************************************)
InitWatchLive ==
    /\ InitWatch
    /\ config = [langs |-> <<"en">>, retranslate |-> FALSE]
    /\ api_key = FALSE

SpecWatchLive ==
    /\ InitWatchLive
    /\ [][NextWatch]_vars
    /\ WF_vars(OnModified)
    /\ WF_vars(Tick)

(***************************************************************************)
(* Strings, for the functions that take them apart.  A string is a         *)
(* sequence of tokens: a word (its lower-case spelling and how it is       *)
(* cased), a numeral (the decimal digits of n), a white-space character,   *)
(* or a punctuation mark.  A value read from YAML is a str, an int (an     *)
(* unquoted number) or None.                                               *)
(***************************************************************************)
Cases == {"lower", "title", "upper"}

Word(lc, case) == [kind |-> "word", lc |-> lc, case |-> case, n |-> 0]

Numeral(n) == [kind |-> "numeral", lc |-> "", case |-> "lower", n |-> n]

Mark(c) == [kind |-> c, lc |-> "", case |-> "lower", n |-> 0]

Space == Mark("space")

Dot == Mark(".")

Comma == Mark(",")

\* The dash of the period string (bio.py:99).
Dash == Mark("dash")

PyStr(s) == [type |-> "str", s |-> s]

PyInt(n) == [type |-> "int", n |-> n]

PyNone == [type |-> "NoneType"]

\* str.lower()
LowerToken(t) == [t EXCEPT !.case = "lower"]

Lower(s) == [i \in 1..Len(s) |-> LowerToken(s[i])]

IsSpace(t) == t.kind = "space"

\* str.strip()
RECURSIVE LStripStr(_)
LStripStr(s) == IF s # <<>> /\ IsSpace(Head(s)) THEN LStripStr(Tail(s)) ELSE s

RECURSIVE RStripStr(_)
RStripStr(s) == IF s # <<>> /\ IsSpace(s[Len(s)])
                THEN RStripStr(SubSeq(s, 1, Len(s) - 1)) ELSE s

StripStr(s) == RStripStr(LStripStr(s))

\* str.split(): the maximal runs of characters that are no white space.
RECURSIVE SplitRuns(_, _, _)
SplitRuns(s, parts, run) ==
    LET closed == IF run = <<>> THEN parts ELSE Append(parts, run)
    IN  IF s = <<>> THEN closed
        ELSE IF IsSpace(Head(s)) THEN SplitRuns(Tail(s), closed, <<>>)
        ELSE SplitRuns(Tail(s), parts, Append(run, Head(s)))

Split(s) == SplitRuns(s, <<>>, <<>>)

(***************************************************************************)
(* parse_start_date (utils.py:87-112)                                      *)
(***************************************************************************)
MONTH_MAP ==
    ("january" :> 1) @@ ("february" :> 2) @@ ("march" :> 3) @@ ("april" :> 4)
    @@ ("may" :> 5) @@ ("june" :> 6) @@ ("july" :> 7) @@ ("august" :> 8)
    @@ ("september" :> 9) @@ ("october" :> 10) @@ ("november" :> 11)
    @@ ("december" :> 12)
    @@ ("januar" :> 1) @@ ("februar" :> 2) @@ ("märz" :> 3) @@ ("mai" :> 5)
    @@ ("juni" :> 6) @@ ("juli" :> 7) @@ ("oktober" :> 10)
    @@ ("dezember" :> 12)

\* A variant of the table without the German spellings.
MonthGetEnglishOnly(month_str) ==
    IF /\ Len(month_str) = 1
       /\ month_str[1].kind = "word"
       /\ month_str[1].case = "lower"
       /\ month_str[1].lc \in DOMAIN MONTH_MAP
       /\ month_str[1].lc \notin {"januar", "februar", "märz", "mai", "juni",
                                  "juli", "oktober", "dezember"}
    THEN MONTH_MAP[month_str[1].lc] ELSE 0

\* MONTH_MAP.get(month_str, 0): the table is keyed by lower-case words.
MonthGet(month_str) ==
    IF /\ Len(month_str) = 1
       /\ month_str[1].kind = "word"
       /\ month_str[1].case = "lower"
       /\ month_str[1].lc \in DOMAIN MONTH_MAP
    THEN MONTH_MAP[month_str[1].lc] ELSE 0

\* int(s): the number a numeral denotes; a ValueError for any other string.
IsInt(s) == Len(s) = 1 /\ s[1].kind = "numeral"

IntOf(s) == s[1].n

\* utils.py:98-112, for a str.
ParseParts(parts) ==
    IF Len(parts) = 2
    THEN <<IF IsInt(parts[2]) THEN IntOf(parts[2]) ELSE 0,
           MonthGet(parts[1])>>
    ELSE IF Len(parts) = 1
         THEN IF IsInt(parts[1]) THEN <<IntOf(parts[1]), 0>> ELSE <<0, 0>>
         ELSE <<0, 0>>

\* date_str.strip() is an AttributeError for an int and for None.
parse_start_date(date_str) ==
    IF date_str.type # "str" THEN [err |-> "AttributeError", v |-> <<>>]
    ELSE [err |-> "", v |-> ParseParts(Split(Lower(StripStr(date_str.s))))]

(***************************************************************************)
(* select_bio_content_deterministic (bio.py:90-144).  A dict is a function *)
(* from the keys present to their values; a list is a sequence; a str is   *)
(* PyStr of its tokens.                                                    *)
(***************************************************************************)
\* d.get(k, default)
Get(d, k, default) == IF k \in DOMAIN d THEN d[k] ELSE default

\* Whether d[k] for each k of keys is there; a KeyError otherwise.
HasKeys(d, keys) == keys \subseteq DOMAIN d

\* list[:n]
Take(list, n) == SubSeq(list, 1, IF Len(list) < n THEN Len(list) ELSE n)

\* What an f-string puts for a value: str(value).
Format(x) ==
    CASE x.type = "str" -> x.s
      [] x.type = "int" -> <<Numeral(x.n)>>
      [] OTHER -> <<Word("none", "title")>>

\* sep.join(items), items a list of str.
RECURSIVE JoinTokens(_, _)
JoinTokens(items, sep) ==
    IF items = <<>> THEN <<>>
    ELSE IF Len(items) = 1 THEN items[1].s
    ELSE items[1].s \o sep \o JoinTokens(Tail(items), sep)

Join(items, sep) == PyStr(JoinTokens(items, sep))

\* s.split(". "): the pieces between the occurrences of ". ", taken from
\* the left.
RECURSIVE SplitSentences(_, _, _)
SplitSentences(s, parts, piece) ==
    IF s = <<>> THEN Append(parts, PyStr(piece))
    ELSE IF Len(s) >= 2 /\ s[1] = Dot /\ s[2] = Space
         THEN SplitSentences(SubSeq(s, 3, Len(s)),
                             Append(parts, PyStr(piece)), <<>>)
         ELSE SplitSentences(Tail(s), parts, Append(piece, Head(s)))

\* s.endswith(".")
EndsWithDot(s) == s # <<>> /\ s[Len(s)] = Dot

\* bio.py:95: the sort key of an entry.
StartKey(e) == parse_start_date(Get(e, "start", PyStr(<<>>)))

\* Tuples compare by the year, then by the month.
KeyLess(a, b) == a[1] < b[1] \/ (a[1] = b[1] /\ a[2] < b[2])

\* A variant that puts an entry before the entries of the same key.
RECURSIVE InsertBeforeEqual(_, _)
InsertBeforeEqual(sorted, e) ==
    IF sorted = <<>> THEN <<e>>
    ELSE IF ~KeyLess(StartKey(e).v, StartKey(Head(sorted)).v)
         THEN <<e>> \o sorted
         ELSE <<Head(sorted)>> \o InsertBeforeEqual(Tail(sorted), e)

\* sorted(..., reverse=True) keeps the entries of equal keys in their
\* original order: an entry goes behind every entry whose key is not less.
RECURSIVE Insert(_, _)
Insert(sorted, e) ==
    IF sorted = <<>> THEN <<e>>
    ELSE IF KeyLess(StartKey(Head(sorted)).v, StartKey(e).v)
         THEN <<e>> \o sorted
         ELSE <<Head(sorted)>> \o Insert(Tail(sorted), e)

RECURSIVE SortFrom(_, _)
SortFrom(sorted, rest) ==
    IF rest = <<>> THEN sorted
    ELSE SortFrom(Insert(sorted, Head(rest)), Tail(rest))

\* bio.py:93-97
SortedEntries(cv) == SortFrom(<<>>, Get(cv, "experience", <<>>))

\* bio.py:98-101
Role(e) ==
    [title |-> e["title"], org |-> Get(e, "org", PyStr(<<>>)),
     period |-> PyStr(Format(e["start"]) \o <<Space, Dash, Space>>
                      \o Format(e["end"]))]

CurrentRoles(entries) ==
    [i \in 1..Len(Take(entries, 3)) |-> Role(entries[i])]

\* bio.py:106-109: the inner loop, left at five highlights.
RECURSIVE BulletLoop(_, _)
BulletLoop(bullets, highlights) ==
    IF bullets = <<>> THEN highlights
    ELSE LET more == Append(highlights, Head(bullets))
         IN  IF Len(more) >= 5 THEN more ELSE BulletLoop(Tail(bullets), more)

\* bio.py:105-111: the outer loop, left at five highlights.
RECURSIVE EntryLoop(_, _)
EntryLoop(entries, highlights) ==
    IF entries = <<>> THEN highlights
    ELSE LET more == BulletLoop(Take(Get(Head(entries), "bullets", <<>>), 2),
                                highlights)
         IN  IF Len(more) >= 5 THEN more ELSE EntryLoop(Tail(entries), more)

\* A variant that goes through every entry.
HighlightsOfAllEntries(entries) == EntryLoop(entries, <<>>)

\* bio.py:104-111
Highlights(entries) == EntryLoop(Take(entries, 4), <<>>)

\* A variant that lists the technical skills first.
SkillsSummaryTechnicalFirst(cv) ==
    LET skills == Get(cv, "skills", <<>>)
        all_skills == Get(skills, "technical", <<>>)
                      \o Get(skills, "leadership", <<>>)
    IN  Join(Take(all_skills, 15), <<Comma, Space>>)

\* bio.py:114-116
SkillsSummary(cv) ==
    LET skills == Get(cv, "skills", <<>>)
        all_skills == Get(skills, "leadership", <<>>)
                      \o Get(skills, "technical", <<>>)
    IN  Join(Take(all_skills, 15), <<Comma, Space>>)

\* bio.py:119
Education(cv) ==
    LET education == Get(cv, "education", <<>>)
    IN  [i \in 1..Len(education) |->
           PyStr(Format(education[i]["degree"]) \o <<Comma, Space>>
                 \o Format(education[i]["institution"]))]

\* A variant that keeps three sentences.
BioSummaryOfThree(cv) ==
    LET bio_summary == StripStr(Get(cv, "profile", PyStr(<<>>)).s)
        sentences == SplitSentences(bio_summary, <<>>, <<>>)
        joined == JoinTokens(Take(sentences, 3), <<Dot, Space>>)
    IN  PyStr(IF EndsWithDot(joined) THEN joined ELSE joined \o <<Dot>>)

\* bio.py:122-127
BioSummary(cv) ==
    LET bio_summary == StripStr(Get(cv, "profile", PyStr(<<>>)).s)
        sentences == SplitSentences(bio_summary, <<>>, <<>>)
        joined == JoinTokens(Take(sentences, 4), <<Dot, Space>>)
    IN  PyStr(IF EndsWithDot(joined) THEN joined ELSE joined \o <<Dot>>)

\* The subscripts of bio.py:99, 119 and 130-136 find their keys.
KeysFound(cv) ==
    /\ HasKeys(cv, {"name", "title", "contact"})
    /\ HasKeys(cv["contact"], {"email", "phone", "address"})
    /\ \A i \in DOMAIN Take(SortedEntries(cv), 3) :
         HasKeys(SortedEntries(cv)[i], {"title", "start", "end"})
    /\ \A i \in DOMAIN Get(cv, "education", <<>>) :
         HasKeys(cv["education"][i], {"degree", "institution"})

\* A sort key cannot be computed (bio.py:95).
KeyRaises(cv) ==
    \E i \in DOMAIN Get(cv, "experience", <<>>) :
      StartKey(cv["experience"][i]).err # ""

select_bio_content_deterministic(cv) ==
    IF KeyRaises(cv) THEN [err |-> "AttributeError", v |-> <<>>]
    ELSE IF ~KeysFound(cv) THEN [err |-> "KeyError", v |-> <<>>]
    ELSE [err |-> "",
          v |-> [name |-> cv["name"],
                 title |-> cv["title"],
                 photo |-> Get(cv, "photo", PyStr(<<>>)),
                 contact |-> [email |-> cv["contact"]["email"],
                              phone |-> cv["contact"]["phone"],
                              address |-> cv["contact"]["address"]],
                 bio_summary |-> BioSummary(cv),
                 career_highlights |-> Highlights(SortedEntries(cv)),
                 current_roles |-> CurrentRoles(SortedEntries(cv)),
                 education |-> Education(cv),
                 skills_summary |-> SkillsSummary(cv),
                 links |-> Get(cv, "links", <<>>)]]

(***************************************************************************)
(* Profiles for the selector.  Each family varies one part of a complete   *)
(* Profile: the starts and organisations of the experience entries, their  *)
(* bullets, the sections present, the summary text, the skill lists.       *)
(***************************************************************************)
Str(w) == PyStr(<<Word(w, "title")>>)

\* The i-th of a list of like items: "role 2", "bullet 3".
Item(w, i) == PyStr(<<Word(w, "lower"), Space, Numeral(i)>>)

\* d with d[k] = v, and d without the keys outside keys.
With(d, k, v) == [x \in DOMAIN d \cup {k} |-> IF x = k THEN v ELSE d[x]]

Only(d, keys) == [x \in DOMAIN d \cap keys |-> d[x]]

BaseProfile ==
    [name |-> Str("name"), title |-> Str("title"), photo |-> Str("photo"),
     contact |-> [email |-> Str("email"), phone |-> Str("phone"),
                  address |-> Str("address")],
     profile |-> PyStr(<<Word("a", "title"), Dot>>),
     experience |-> <<>>,
     skills |-> [leadership |-> <<Item("leadership", 1)>>,
                 technical |-> <<Item("technical", 1)>>],
     education |-> <<[degree |-> Str("degree"),
                      institution |-> Str("institution")]>>,
     links |-> <<[label |-> Str("label"), url |-> Str("url")]>>]

MonthYearStr(month, y) == PyStr(<<Word(month, "title"), Space, Numeral(y)>>)

\* Entries that differ in start and organisation; "March 2021" and
\* "März 2021" have the same key.
EntryChoices ==
    {[start |-> MonthYearStr("march", 2021), org |-> TRUE],
     [start |-> MonthYearStr("märz", 2021), org |-> FALSE],
     [start |-> PyStr(<<Numeral(2019)>>), org |-> TRUE],
     [start |-> MonthYearStr("january", 2021), org |-> TRUE]}

RoleEntry(i, c) ==
    LET e == [title |-> Item("role", i), start |-> c.start,
              end |-> Str("present"), bullets |-> <<Item("bullet", i)>>]
    IN  IF c.org THEN With(e, "org", Item("org", i)) ELSE e

\* The Profiles of k such entries.
RoleProfiles(k) ==
    {With(BaseProfile, "experience", [i \in 1..k |-> RoleEntry(i, choice[i])]) :
       choice \in [1..k -> EntryChoices]}

\* The j-th bullet of the i-th entry.
Bullet(i, j) == PyStr(<<Word("bullet", "lower"), Space, Numeral(i), Dot, Numeral(j)>>)

\* Entries whose order in the file is not the order of their starts.
BulletEntry(i, n) ==
    [title |-> Item("role", i), org |-> Item("org", i),
     start |-> PyStr(<<Numeral(2010 + ((2 * i) % 5))>>),
     end |-> Str("present"), bullets |-> [j \in 1..n |-> Bullet(i, j)]]

\* The Profiles of k such entries, each with no bullet, one, or MaxBullets.
BulletProfiles(k) ==
    {With(BaseProfile, "experience", [i \in 1..k |-> BulletEntry(i, count[i])]) :
       count \in [1..k -> {0, 1, MaxBullets}]}

\* Ten entries of five bullets each.
TenByFive ==
    With(BaseProfile, "experience", [i \in 1..10 |-> BulletEntry(i, 5)])

OptionalSections ==
    {"photo", "contact", "profile", "skills", "education", "links",
     "experience"}

OptionalEntryKeys == {"org", "start", "end", "bullets"}

\* Profiles with any of the optional sections absent, with either skill
\* list absent, and with one entry that lacks any of its optional keys.
SparseProfiles ==
    {Only(With(BaseProfile, "experience", <<BulletEntry(1, 2)>>),
          {"name", "title"} \cup sections) :
       sections \in SUBSET OptionalSections}
    \cup {With(BaseProfile, "skills", Only(BaseProfile.skills, lists)) :
            lists \in SUBSET {"leadership", "technical"}}
    \cup {With(BaseProfile, "experience",
               <<Only(BulletEntry(1, 2), {"title"} \cup keys)>>) :
            keys \in SUBSET OptionalEntryKeys}

\* Summary texts: every string of k tokens over a word, the full stop and
\* the space, and the texts of k pieces (a letter, a letter and a full stop,
\* or nothing) with ". " between them.
Alphabet == {Word("a", "title"), Dot, Space}

TokenStrings(k) == [1..k -> Alphabet]

Letters == <<"a", "b", "c", "d", "e", "f", "g", "h">>

Letter(i) == Word(Letters[i], "title")

Piece(i, form) ==
    CASE form = "word" -> PyStr(<<Letter(i)>>)
      [] form = "dotted" -> PyStr(<<Letter(i), Dot>>)
      [] OTHER -> PyStr(<<>>)

SentenceTexts(k) ==
    {JoinTokens([i \in 1..k |-> Piece(i, form[i])], <<Dot, Space>>) :
       form \in [1..k -> {"word", "dotted", "empty"}]}

SummaryProfile(s) == With(BaseProfile, "profile", PyStr(s))

Leadership(n) == [i \in 1..n |-> Item("leadership", i)]

Technical(n) == [i \in 1..n |-> Item("technical", i)]

SkillProfile(n, m) ==
    With(BaseProfile, "skills",
         [leadership |-> Leadership(n), technical |-> Technical(m)])

(***************************************************************************)
(* SpecSelect: select_bio_content_deterministic applied to one Profile.    *)
(***************************************************************************)
InitSelect ==
    /\ Quiescent
    /\ ret = NoRet
    /\ \/ \E k \in 0..MaxEntries :
            \E cv \in RoleProfiles(k) \cup BulletProfiles(k) : arg = Given(cv)
       \/ \E cv \in SparseProfiles \cup {TenByFive} : arg = Given(cv)
       \/ \E k \in 0..MaxSummaryLen :
            \E s \in TokenStrings(k) : arg = Given(SummaryProfile(s))
       \/ \E k \in 1..MaxSentences :
            \E s \in SentenceTexts(k) : arg = Given(SummaryProfile(s))
       \/ \E n \in 0..MaxSkills, m \in 0..MaxSkills :
            arg = Given(SkillProfile(n, m))

\* A variant that sorts the Profile's own list (list.sort) to order it.
ProfileSortedInPlace(cv) ==
    IF "experience" \in DOMAIN cv /\ ~KeyRaises(cv)
    THEN With(cv, "experience", SortedEntries(cv)) ELSE cv

\* The Profile as select_bio_content_deterministic leaves it: sorted()
\* (bio.py:93-97) builds a new list, the slices, the concatenation and the
\* comprehensions (bio.py:98-119) build new ones, and nothing is assigned
\* into cv.
ProfileAfterSelect(cv) == cv

\* One application of select_bio_content_deterministic to the Profile; the
\* function has no parameter but cv, and its body neither opens a file nor
\* makes a client.  It may be applied again to the same Profile.
SelectBio ==
    /\ arg.given
    /\ ret' = Returned(select_bio_content_deterministic(arg.x))
    /\ arg' = Given(ProfileAfterSelect(arg.x))
    /\ UNCHANGED <<source, api_key, files, request, call, watchVars>>

NextSelect == SelectBio

SpecSelect == InitSelect /\ [][NextSelect]_vars

(***************************************************************************)
(* SpecTailored: the experience section of a tailored Profile, rendered.   *)
(* tailor_cv returns what the remote answered, the Profile with its        *)
(* experience entries put in order of relevance (any order); tailor hands  *)
(* it to build_docx, whose build_main_experience renders the entries.      *)
(***************************************************************************)
\* The paragraphs of one entry (docx_builder.py:313-338): title and
\* organisation, the dates, the bullets.
EntryParagraphs(e) ==
    [title |-> e["title"], org |-> Get(e, "org", PyNone),
     dates |-> <<e["start"], e["end"]>>, bullets |-> Get(e, "bullets", <<>>)]

\* build_main_experience (docx_builder.py:306-360): the entries are sorted
\* by parse_start_date of their start, most recent first, and rendered in
\* that order.
build_main_experience(cv) ==
    LET entries == SortFrom(<<>>, Get(cv, "experience", <<>>))
    IN  [i \in DOMAIN entries |-> EntryParagraphs(entries[i])]

\* cv with its experience entries in the order p.
Reordered(cv, p) ==
    With(cv, "experience",
         [i \in DOMAIN cv["experience"] |-> cv["experience"][p[i]]])

TailoredResult(cv) ==
    [done |-> TRUE, experience |-> Get(cv, "experience", <<>>),
     rendered |-> build_main_experience(cv)]

InitTailored ==
    /\ Quiescent
    /\ ret = NoRet
    /\ \E k \in 0..MaxTailored :
         \E cv \in RoleProfiles(k), p \in Permutations(1..k) :
           arg = Given(Reordered(cv, p))

\* tailor.py:97: the tailored Profile tailor_cv returned is rendered.
RenderTailored ==
    /\ arg.given
    /\ ~ret.done
    /\ ret' = TailoredResult(arg.x)
    /\ UNCHANGED <<source, api_key, files, request, call, watchVars, arg>>

NextTailored == RenderTailored

SpecTailored == InitTailored /\ [][NextTailored]_vars

(***************************************************************************)
(* SpecLegacy: the single-file program's translate_cv (CV/cvserve.py:63-   *)
(* 119) and the package's (CV/cvserve/translate.py:11-71), each applied to *)
(* the same Profile in the same state of the cache file and the            *)
(* credential, with the same answer of the remote service.  Both programs  *)
(* lie in the same directory and so name the same cache file               *)
(* (cvserve.py:17-20, utils.py:13-16).                                     *)
(***************************************************************************)
\* cvserve.py:65-67 and the load_cv of cvserve.py:56-58.
LegacyReadCache(fs) ==
    LET r == load_cv(fs[CACHE_FILE])
    IN  Outcome(r.err, r.v, fs, 0, "cache")

\* cvserve.py:85-119: the remote call, the unwrapping, the parse, the write.
LegacyRemoteTranslate(fs, resp) ==
    IF resp.raises THEN Outcome("RemoteError", NoValue, fs, 1, "remote")
    ELSE LET translated_cv == SafeLoad(Unwrap(resp.text))
         IN  IF translated_cv = ParseError
             THEN Outcome("ParseError", NoValue, fs, 1, "remote")
             ELSE Outcome("", translated_cv, WriteCache(fs, translated_cv),
                          1, "remote")

\* translate_cv of cvserve.py:63-119: without a credential it exits
\* (cvserve.py:75-78), whether or not a cache file exists.
legacy_translate_cv(cv, use_cache, fs, key, resp) ==
    IF use_cache /\ Exists(fs, CACHE_FILE) THEN LegacyReadCache(fs)
    ELSE IF ~key THEN Outcome("SystemExit", NoValue, fs, 0, "none")
    ELSE LegacyRemoteTranslate(fs, resp)

LegacyInput(cv, use_cache, cache, key, resp) ==
    [cv |-> cv, use_cache |-> use_cache, key |-> key, resp |-> resp,
     fs |-> [NoFiles EXCEPT ![CACHE_FILE] = cache]]

BothResults(x) ==
    [done |-> TRUE,
     legacy |-> legacy_translate_cv(x.cv, x.use_cache, x.fs, x.key, x.resp),
     package |-> translate_cv(x.cv, ~x.use_cache, x.fs, x.key, x.resp)]

InitLegacy ==
    /\ Quiescent
    /\ ret = NoRet
    /\ \E n \in Versions, use_cache \in BOOLEAN, key \in BOOLEAN,
          cache \in EarlierCaches :
         \E resp \in Responses(Profile(n)) :
           arg = Given(LegacyInput(Profile(n), use_cache, cache, key, resp))

\* translate_cv(cv, use_cache=c) of the single-file program and
\* translate_cv(cv, retranslate=not c) of the package, from the same state.
TranslateBoth ==
    /\ arg.given
    /\ ~ret.done
    /\ ret' = BothResults(arg.x)
    /\ UNCHANGED <<source, api_key, files, request, call, watchVars, arg>>

NextLegacy == TranslateBoth

SpecLegacy == InitLegacy /\ [][NextLegacy]_vars

(***************************************************************************)
(* SpecDates: parse_start_date applied to one value.  The values are the   *)
(* strings of up to MaxParts words, numerals and punctuated words, with    *)
(* single spaces or with padding, and the values YAML gives that are no    *)
(* str.                                                                    *)
(***************************************************************************)
EnglishMonths ==
    <<"january", "february", "march", "april", "may", "june", "july",
      "august", "september", "october", "november", "december">>

GermanMonths ==
    <<"januar", "februar", "märz", "april", "mai", "juni", "juli",
      "august", "september", "oktober", "november", "dezember">>

OtherWords == {"gibberish", "mar", "present"}

Spellings ==
    {EnglishMonths[m] : m \in DOMAIN EnglishMonths}
    \cup {GermanMonths[m] : m \in DOMAIN GermanMonths} \cup OtherWords

Years == {2019, 2021}

\* What the first run of a string may be, and what the later ones.
FirstParts ==
    {<<Word(w, c)>> : w \in Spellings, c \in Cases}
    \cup {<<Numeral(y)>> : y \in Years}
    \cup {<<Word("march", "title"), Dot>>}

LaterParts == {<<Numeral(y)>> : y \in Years} \cup {<<Word("gibberish", "lower")>>}

PartLists(k) ==
    IF k = 0 THEN {<<>>}
    ELSE {<<p>> \o rest : p \in FirstParts, rest \in [1..(k - 1) -> LaterParts]}

\* The parts with white space between them: one space, or, padded, two
\* spaces and a space at either end.
RECURSIVE Spaced(_, _)
Spaced(parts, sep) ==
    IF parts = <<>> THEN <<>>
    ELSE IF Len(parts) = 1 THEN parts[1]
    ELSE parts[1] \o sep \o Spaced(Tail(parts), sep)

DateString(parts, padded) ==
    IF padded THEN <<Space>> \o Spaced(parts, <<Space, Space>>) \o <<Space>>
    ELSE Spaced(parts, <<Space>>)

\* The date strings of k parts, and the values that are no str.
DateStrings(k) ==
    {PyStr(DateString(parts, padded)) : parts \in PartLists(k),
                                        padded \in BOOLEAN}

NoStrings == {PyInt(y) : y \in Years} \cup {PyNone}

InitDates ==
    /\ Quiescent
    /\ \E k \in 0..MaxParts :
         \E x \in DateStrings(k) \cup NoStrings : arg = Given(x)
    /\ ret = NoRet

ParseStartDate ==
    /\ arg.given
    /\ ~ret.done
    /\ ret' = Returned(parse_start_date(arg.x))
    /\ UNCHANGED <<source, api_key, files, request, call, watchVars, arg>>

NextDates == ParseStartDate

SpecDates == InitDates /\ [][NextDates]_vars

(***************************************************************************)
(* SpecUnwrap: the response-unwrapping rule of the three transformers      *)
(* (translate.py:58-64, bio.py:81-87, tailor.py:54-60) applied to a body   *)
(* of up to MaxLines lines put between a fence with or without a language  *)
(* tag and a closing fence, with or without blank lines around.            *)
(***************************************************************************)
Transformers == {"translate", "bio", "tailor"}

UnwrapBy(transformer, text) ==
    CASE transformer = "translate" -> Unwrap(text)
      [] transformer = "bio" -> UnwrapBio(text)
      [] OTHER -> UnwrapTailor(text)

\* The lines a body is made of: those of a mapping's and of a scalar's
\* YAML, a blank line, a line that is no YAML, and fences.
BodyLines ==
    {YamlLine(Translation(Profile(1)), 1), YamlLine(Translation(Profile(1)), 2),
     YamlLine(Scalar, 1), Blank, Junk, Fence(""), Fence("yaml")}

\* The bodies of k lines.
Bodies(k) == [1..k -> BodyLines]

Wrapped(body, tag, padded) ==
    LET fenced == <<Fence(tag)>> \o body \o <<Fence("")>>
    IN  IF padded THEN <<Blank>> \o fenced \o <<Blank>> ELSE fenced

UnwrapInputs(k) ==
    [body : Bodies(k), tag : {"", "yaml"}, padded : BOOLEAN]

\* What a transformer makes of the body sent fenced and of the body sent
\* as it is.
UnwrapResult(transformer, x) ==
    [done |-> TRUE, by |-> transformer,
     unwrapped |-> UnwrapBy(transformer, Wrapped(x.body, x.tag, x.padded)),
     fenced |-> SafeLoad(UnwrapBy(transformer,
                                  Wrapped(x.body, x.tag, x.padded))),
     unfenced |-> SafeLoad(UnwrapBy(transformer, x.body))]

InitUnwrap ==
    /\ Quiescent
    /\ \E k \in 0..MaxLines : \E x \in UnwrapInputs(k) : arg = Given(x)
    /\ ret = NoRet

UnwrapStep(transformer) ==
    /\ arg.given
    /\ ~ret.done
    /\ ret' = UnwrapResult(transformer, arg.x)
    /\ UNCHANGED <<source, api_key, files, request, call, watchVars, arg>>

TranslateUnwrap == UnwrapStep("translate")

BioUnwrap == UnwrapStep("bio")

TailorUnwrap == UnwrapStep("tailor")

NextUnwrap == TranslateUnwrap \/ BioUnwrap \/ TailorUnwrap

SpecUnwrap == InitUnwrap /\ [][NextUnwrap]_vars

(***************************************************************************)
(* Properties of translate_cv, stated on the record of the call made by    *)
(* the last one-shot build (Spec).                                         *)
(***************************************************************************)
CacheBefore == call.before.kind # "absent"

\* C1: in cache-preferring mode (retranslate = FALSE), whenever a cache
\* entry exists the call returns exactly the cached entry, makes no remote
\* call and writes no file, whatever the credential and the profile passed.
C1_CacheModeServesCache ==
    (call.made /\ ~call.retranslate /\ CacheBefore) =>
        /\ call.err = ""
        /\ call.result = SafeLoad(call.before.text)
        /\ call.remote_calls = 0
        /\ call.after = call.before
        /\ call.others_kept

\* A cache-mode call with a credential set, served an entry that is not
\* the translation of the profile passed in.
C1_Witness ==
    /\ call.made /\ ~call.retranslate /\ CacheBefore
    /\ call.key
    /\ call.result.src # call.cv.src

C3_CacheHoldsReturnedValue ==
    (call.made /\ call.via = "remote" /\ call.err = "") =>
        /\ call.after = YamlFile(Dump(call.result))
        /\ load_cv(call.after) = Ok(call.result)
        /\ call.others_kept
        /\ Cardinality({p \in OutputPaths : files[p].kind = "yaml"}) <= 1

\* A successful remote translation over an entry holding another value.
C3_Witness ==
    /\ call.made /\ call.via = "remote" /\ call.err = ""
    /\ CacheBefore
    /\ call.before # call.after

C5_NoCredentialNoCacheFails ==
    (call.made /\ ~call.key /\ ~CacheBefore) =>
        /\ call.err = "SystemExit"
        /\ call.remote_calls = 0
        /\ call.after = Absent
        /\ call.result = NoValue
        /\ request.err = "SystemExit"
        /\ DocPath("de") \notin request.written

\* A call without credential and cache, in forced-refresh mode.
C5_Witness ==
    /\ call.made /\ ~call.key /\ ~CacheBefore
    /\ call.retranslate

SourceProfiles == {Profile(n) : n \in Versions}

\* C6: the cache is not keyed by source content: in every state with a
\* cache entry, a cache-mode call returns one and the same value, the
\* cached one, for every source profile (and every remote behaviour), hence
\* the same for any two; so a call made after the source was edited is
\* served the entry written before the edit.
C6_CacheNotKeyedBySource ==
    /\ Exists(files, CACHE_FILE) =>
         \A cv \in SourceProfiles :
           \A resp \in Responses(cv) :
             LET t == translate_cv(cv, FALSE, files, api_key, resp)
             IN  /\ t.err = ""
                 /\ t.result = SafeLoad(files[CACHE_FILE].text)
                 /\ t.fs = files
    /\ (call.made /\ call.via = "cache") =>
         call.result = SafeLoad(call.before.text)

\* A cache-mode build of the edited source served the translation of the
\* content before the edit, and rendered it.
C6_Witness ==
    /\ call.made /\ call.via = "cache" /\ call.err = ""
    /\ call.cv = Profile(source.ver)
    /\ call.result = Translation(Profile(1))
    /\ call.cv.src = 2
    /\ files[DocPath("de")] = Docx(Translation(Profile(1)), "de")

(***************************************************************************)
(* Properties of the build command (Spec).                                 *)
(***************************************************************************)
Requested(langs) == {DocPath(langs[i]) : i \in 1..Len(langs)}

\* C7 as claimed: no partial documents: for every build request, either
\* every requested document is produced or no document is written at all.
C7_NoPartialDocuments ==
    request.made =>
        \/ request.written = Requested(request.langs)
        \/ request.written = {}

\* C8 as claimed: a cache entry, if present, is a mapping of Profile or Bio
\* shape, never a scalar, a list or null.
C8_CacheIsProfileOrBio ==
    Exists(files, CACHE_FILE) =>
        /\ load_cv(files[CACHE_FILE]).err = ""
        /\ load_cv(files[CACHE_FILE]).v.shape \in {"profile", "bio"}

(***************************************************************************)
(* Properties of the file-watch mode (SpecWatch).                          *)
(***************************************************************************)
\* C9 as claimed: every build failure in watch mode is caught and logged,
\* and the observer goes on dispatching, so that a later modification is
\* still handled.
C9_WatchSurvivesBuildFailure ==
    (handled.made /\ handled.started /\ handled.err # "") =>
        /\ handled.logged
        /\ observer = "running"

\* A step in which on_modified handles the next event.
DispatchStep ==
    /\ observer = "running"
    /\ events # <<>>
    /\ events' = Tail(events)
    /\ observer' # "stopped"

\* C10: the de-bounce.  An event for a directory or for another file, and
\* an event for the source file dispatched less than a second after the
\* handler's last rebuild began, start no rebuild: the dispatch leaves the
\* files, _last_build and the clock as they were and drops the event; and
\* a rebuild begins in no step other than the dispatch of an event, so a
\* dropped event is never made up for later.
C10_Debounce ==
    [][ /\ ( /\ DispatchStep
             /\ \/ ~Relevant(Head(events))
                \/ Time(clock) - last_build < TicksPerSecond )
           => /\ ~handled'.started
              /\ files' = files
              /\ last_build' = last_build
              /\ clock' = clock
        /\ ~DispatchStep
           => /\ last_build' = last_build \/ observer' = "stopped"
              /\ \A l \in Langs : files'[DocPath(l)] = files[DocPath(l)]
      ]_vars

\* A modification of the source dispatched within a second of a rebuild
\* was dropped, and nothing is left in the queue.
C10_Witness ==
    /\ handled.made
    /\ handled.event = SourceEvent
    /\ handled.recent
    /\ ~handled.started
    /\ last_build > 0
    /\ events = <<>>

IsBio(r) == r.made /\ "cmd" \in DOMAIN r /\ r.cmd = "bio"

\* C11: a failed remote transformation aborts the request.  When the remote
\* call raises, or its unwrapped answer is no YAML document, translate_cv
\* ends in an error after exactly one remote call, returns nothing and
\* leaves every file, the cache included, as it was; the request that made
\* the call ends in that error without writing the document the call was
\* for.  A bio request whose condensation fails the same way ends in an
\* error after one remote call, with no Bio selected locally, no translation
\* attempted and nothing written.
C11_RemoteFailureAborts ==
    /\ \A cv \in {Profile(n) : n \in Versions}
               \cup {Condensed(Profile(n)) : n \in Versions} :
         \A resp \in Responses(cv), retranslate \in BOOLEAN :
           LET t == translate_cv(cv, retranslate, files, TRUE, resp)
           IN  (t.via = "remote" /\ Failed(resp))
                 => /\ t.err # ""
                    /\ t.result = NoValue
                    /\ t.remote_calls = 1
                    /\ t.fs = files
    /\ (call.made /\ call.via = "remote" /\ call.err # "")
         => /\ request.err = call.err
            /\ request.written \cap {DocPath("de"), BioPath("de")} = {}
            /\ call.after = call.before
    /\ (IsBio(request) /\ request.key /\ request.condense_failed
          /\ request.select.via = "remote")
         => /\ request.err # ""
            /\ request.select.v = NoValue
            /\ request.select.remote_calls = 1
            /\ request.written = {}
            /\ call = NoCall

\* A bio request with the credential set whose condensation failed.
C11_Witness ==
    /\ IsBio(request)
    /\ request.key
    /\ request.condense_failed
    /\ request.select.via = "remote"
    /\ request.err # ""

(***************************************************************************)
(* Properties of parse_start_date, stated on its argument and its result   *)
(* (SpecDates).                                                            *)
(***************************************************************************)
\* The strings "<word> <y>" and "<y>", with single spaces or padded.
WordYear(w, y) ==
    {PyStr(DateString(<< <<w>>, <<Numeral(y)>> >>, p)) : p \in BOOLEAN}

YearAlone(y) == {PyStr(DateString(<< <<Numeral(y)>> >>, p)) : p \in BOOLEAN}

\* A string of one of the two accepted forms.
ValidDate(x) ==
    \/ \E w \in Spellings, c \in Cases, y \in Years : x \in WordYear(Word(w, c), y)
    \/ \E y \in Years : x \in YearAlone(y)

\* C15: parse_start_date never raises, and a string of neither accepted
\* form ("<MonthName> <Year>", "<Year>") has the key (0, 0).
C15_UnparseableIsMinimum ==
    (ret.done /\ arg.x.type = "str")
      => /\ ret.err = ""
         /\ ~ValidDate(arg.x) => ret.v = <<0, 0>>

\* C16: "<MonthName> <Year>" has the key (year, m), m the number of the
\* month for each of the twelve English and the twelve German names
\* however cased, and 0 for a word that is no month name; "<Year>" has the
\* key (year, 0); "March 2021" and "März 2021" have (2021, 3), "2019" has
\* (2019, 0) and "gibberish" (0, 0).
C16_MonthYearKeys ==
    ret.done =>
      /\ \A m \in 1..12, c \in Cases, y \in Years :
           arg.x \in WordYear(Word(EnglishMonths[m], c), y)
                     \cup WordYear(Word(GermanMonths[m], c), y)
             => ret.err = "" /\ ret.v = <<y, m>>
      /\ \A w \in OtherWords, c \in Cases, y \in Years :
           arg.x \in WordYear(Word(w, c), y) => ret.err = "" /\ ret.v = <<y, 0>>
      /\ \A y \in Years :
           arg.x \in YearAlone(y) => ret.err = "" /\ ret.v = <<y, 0>>
      /\ arg.x = PyStr(<<Word("march", "title"), Space, Numeral(2021)>>)
           => ret.v = <<2021, 3>>
      /\ arg.x = PyStr(<<Word("märz", "title"), Space, Numeral(2021)>>)
           => ret.v = <<2021, 3>>
      /\ arg.x = PyStr(<<Numeral(2019)>>) => ret.v = <<2019, 0>>
      /\ arg.x = PyStr(<<Word("gibberish", "lower")>>) => ret.v = <<0, 0>>

\* "März 2021" has been parsed.
C16_Witness ==
    /\ ret.done
    /\ arg.x = PyStr(<<Word("märz", "title"), Space, Numeral(2021)>>)
    /\ ret.v = <<2021, 3>>

(***************************************************************************)
(* Properties of select_bio_content_deterministic, stated on its argument  *)
(* and its result (SpecSelect).                                            *)
(***************************************************************************)
Experience == Get(arg.x, "experience", <<>>)

\* The month a word names, in English or in German.
MonthNumber(w) ==
    CHOOSE m \in 1..12 : EnglishMonths[m] = w.lc \/ GermanMonths[m] = w.lc

IsMonthName(w) ==
    w.kind = "word" /\ \E m \in 1..12 : EnglishMonths[m] = w.lc \/ GermanMonths[m] = w.lc

\* A start of the form "Month Year" or "Year", and the (year, month) it
\* stands for.
ValidStart(e) ==
    /\ "start" \in DOMAIN e
    /\ e.start.type = "str"
    /\ \/ Len(e.start.s) = 1 /\ e.start.s[1].kind = "numeral"
       \/ /\ Len(e.start.s) = 3
          /\ IsMonthName(e.start.s[1])
          /\ e.start.s[2] = Space
          /\ e.start.s[3].kind = "numeral"

YearMonth(e) ==
    IF Len(e.start.s) = 1 THEN <<e.start.s[1].n, 0>>
    ELSE <<e.start.s[3].n, MonthNumber(e.start.s[1])>>

Later(a, b) == a[1] > b[1] \/ (a[1] = b[1] /\ a[2] > b[2])

\* Entry i comes before entry j when sorted by (year, month) descending,
\* entries of the same (year, month) in their original order.
Ahead(i, j) ==
    \/ Later(YearMonth(Experience[i]), YearMonth(Experience[j]))
    \/ YearMonth(Experience[i]) = YearMonth(Experience[j]) /\ i < j

Rank(i) == 1 + Cardinality({j \in DOMAIN Experience : Ahead(j, i)})

Projected(e) ==
    [title |-> e.title,
     org |-> IF "org" \in DOMAIN e THEN e.org ELSE PyStr(<<>>),
     period |-> PyStr(e.start.s \o <<Space, Dash, Space>> \o e.end.s)]

\* C12: for a Profile whose experience entries all have a start of the form
\* "Month Year" or "Year", the current roles the selector returns are the
\* first min(3, N) entries in the order of (year, month) descending, entries
\* of the same (year, month) in their original order, each as its title,
\* its org or the empty string, and the period "start - end".
C12_CurrentRoles ==
    (ret.done /\ ret.err = "" /\ \A i \in DOMAIN Experience : ValidStart(Experience[i]))
      => /\ Len(ret.v.current_roles)
              = (IF Len(Experience) < 3 THEN Len(Experience) ELSE 3)
         /\ \A i \in DOMAIN Experience :
              Rank(i) <= 3
                => ret.v.current_roles[Rank(i)] = Projected(Experience[i])

\* The selector has returned for a Profile of more than three entries, two
\* of the first three with the same (year, month), one of the three without
\* an org, and an entry listed later in the file ranked ahead of an earlier
\* one.
C12_Witness ==
    /\ ret.done
    /\ ret.err = ""
    /\ Len(Experience) > 3
    /\ \A i \in DOMAIN Experience : ValidStart(Experience[i])
    /\ \E i, j \in DOMAIN Experience :
         /\ i < j
         /\ YearMonth(Experience[i]) = YearMonth(Experience[j])
         /\ Rank(j) <= 3
    /\ \E i \in DOMAIN Experience : Rank(i) <= 3 /\ "org" \notin DOMAIN Experience[i]
    /\ \E i, j \in DOMAIN Experience : i < j /\ Rank(j) < Rank(i)

\* The entry at place r of the sorted order.
SortedAt(r) == Experience[CHOOSE i \in DOMAIN Experience : Rank(i) = r]

RECURSIVE Flatten(_)
Flatten(lists) ==
    IF lists = <<>> THEN <<>> ELSE Head(lists) \o Flatten(Tail(lists))

FirstOf(list, n) == [i \in 1..(IF Len(list) < n THEN Len(list) ELSE n) |-> list[i]]

BulletsOf(e) == IF "bullets" \in DOMAIN e THEN e.bullets ELSE <<>>

\* C13: the highlights are the first two bullets of each of the first four
\* entries of the sorted order, in that order, cut at five: never more
\* than five, never a bullet of a fifth or later entry; of ten entries of
\* five bullets each they are bullets 1 and 2 of the first entry, 1 and 2
\* of the second and bullet 1 of the third.
C13_Highlights ==
    (ret.done /\ ret.err = "" /\ \A i \in DOMAIN Experience : ValidStart(Experience[i]))
      => LET first4 == FirstOf([r \in DOMAIN Experience |-> SortedAt(r)], 4)
             picked == [r \in DOMAIN first4 |-> FirstOf(BulletsOf(first4[r]), 2)]
             highlights == ret.v.career_highlights
         IN  /\ highlights = FirstOf(Flatten(picked), 5)
             /\ Len(highlights) <= 5
             /\ \A h \in DOMAIN highlights :
                  \E r \in DOMAIN first4, j \in 1..2 :
                    /\ j \in DOMAIN BulletsOf(first4[r])
                    /\ highlights[h] = BulletsOf(first4[r])[j]
             /\ arg.x = TenByFive
                  => highlights = <<Bullet(2, 1), Bullet(2, 2), Bullet(7, 1),
                                    Bullet(7, 2), Bullet(4, 1)>>

\* The selector has returned fewer than five highlights for a Profile whose
\* fifth entry of the sorted order has bullets and one of whose first four
\* has more than two.
C13_Witness ==
    /\ ret.done
    /\ ret.err = ""
    /\ Len(Experience) > 4
    /\ \A i \in DOMAIN Experience : ValidStart(Experience[i])
    /\ \E i \in DOMAIN Experience : Rank(i) = 5 /\ Len(BulletsOf(Experience[i])) > 0
    /\ \E i \in DOMAIN Experience : Rank(i) <= 4 /\ Len(BulletsOf(Experience[i])) > 2
    /\ Len(ret.v.career_highlights) < 5

BioKeys ==
    {"name", "title", "photo", "contact", "bio_summary", "career_highlights",
     "current_roles", "education", "skills_summary", "links"}

SectionAbsent(section) == section \notin DOMAIN arg.x

\* C14: the selector returns for every Profile, with every key of a Bio in
\* its result; an optional section that is absent (experience, skills,
\* education, links, profile summary, contact, an entry's org, start, end
\* or bullets) gives an empty list or an empty string, never an error.
C14_AlwaysFullyPopulated ==
    ret.done
      => /\ ret.err = ""
         /\ DOMAIN ret.v = BioKeys
         /\ SectionAbsent("experience")
              => ret.v.current_roles = <<>> /\ ret.v.career_highlights = <<>>
         /\ SectionAbsent("skills") => ret.v.skills_summary = PyStr(<<>>)
         /\ SectionAbsent("education") => ret.v.education = <<>>
         /\ SectionAbsent("links") => ret.v.links = <<>>
         /\ SectionAbsent("photo") => ret.v.photo = PyStr(<<>>)
         /\ SectionAbsent("profile") => ret.v.bio_summary = PyStr(<<>>)

\* The profile text, white space at its ends removed (bio.py:122).
SummaryText == StripStr(Get(arg.x, "profile", PyStr(<<>>)).s)

\* The places of SummaryText where ". " begins.
Breaks ==
    {i \in 1..(Len(SummaryText) - 1) :
       SummaryText[i] = Dot /\ SummaryText[i + 1] = Space}

\* The text up to the fourth ". ", or all of it when there are fewer.
FourSentences ==
    IF Cardinality(Breaks) < 4 THEN SummaryText
    ELSE LET fourth == CHOOSE i \in Breaks :
                         Cardinality({j \in Breaks : j < i}) = 3
         IN  SubSeq(SummaryText, 1, fourth - 1)

SkillsOf(list) ==
    IF "skills" \in DOMAIN arg.x /\ list \in DOMAIN arg.x.skills
    THEN arg.x.skills[list] ELSE <<>>

\* The k-th skill of the leadership list followed by the technical list.
Skill(k) ==
    IF k <= Len(SkillsOf("leadership")) THEN SkillsOf("leadership")[k]
    ELSE SkillsOf("technical")[k - Len(SkillsOf("leadership"))]

SkillCount == Len(SkillsOf("leadership")) + Len(SkillsOf("technical"))

\* The first n skills, each after the first preceded by ", ".
Listed(n) ==
    Flatten([k \in 1..n |->
               (IF k = 1 THEN <<>> ELSE <<Comma, Space>>) \o Skill(k).s])

\* C18: the skills summary is the first 15 items of the leadership list
\* followed by the technical list, joined into one string: of 20 leadership
\* and 10 technical items it holds the first 15 leadership items, of 5 and
\* 20 the 5 leadership items and then the first 10 technical ones.
C18_SkillsSummary ==
    (ret.done /\ ret.err = "")
      => /\ ret.v.skills_summary
              = PyStr(Listed(IF SkillCount < 15 THEN SkillCount ELSE 15))
         /\ (Len(SkillsOf("leadership")) = 20 /\ Len(SkillsOf("technical")) = 10)
              => ret.v.skills_summary
                   = PyStr(Flatten([k \in 1..15 |->
                        (IF k = 1 THEN <<>> ELSE <<Comma, Space>>)
                        \o Item("leadership", k).s]))
         /\ (Len(SkillsOf("leadership")) = 5 /\ Len(SkillsOf("technical")) = 20)
              => ret.v.skills_summary
                   = PyStr(Flatten([k \in 1..15 |->
                        (IF k = 1 THEN <<>> ELSE <<Comma, Space>>)
                        \o (IF k <= 5 THEN Item("leadership", k)
                            ELSE Item("technical", k - 5)).s]))

\* The selector has returned for 5 leadership and 20 technical skills.
C18_Witness ==
    /\ ret.done
    /\ ret.err = ""
    /\ Len(SkillsOf("leadership")) = 5
    /\ Len(SkillsOf("technical")) = 20
    /\ ret.v.skills_summary # PyStr(<<>>)

(***************************************************************************)
(* Properties of the response-unwrapping rule (SpecUnwrap).                *)
(***************************************************************************)
\* A text that is not fenced: its first line that is not blank is no
\* fence, and its last is no closing fence.
Unfenced(t) == ~StartsWithFence(Strip(t)) /\ ~EndsWithFence(Strip(t))

\* C19: for every body, the body between a fence line (with or without a
\* language tag) and a closing fence line unwraps to the body itself, and
\* so parses as the body does; sent without fences, the body parses to the
\* same value.  Each of the three transformers (translate, condense to a
\* Bio, tailor) unwraps a response to the same text.
C19_FenceStripping ==
    ret.done
      => /\ ret.unwrapped = arg.x.body
         /\ ret.fenced = SafeLoad(arg.x.body)
         /\ Unfenced(arg.x.body) => ret.fenced = ret.unfenced
         /\ \A t \in Transformers :
              /\ UnwrapBy(t, Wrapped(arg.x.body, arg.x.tag, arg.x.padded))
                   = ret.unwrapped
              /\ UnwrapBy(t, arg.x.body) = UnwrapBy(ret.by, arg.x.body)

\* The translator has unwrapped a fenced mapping with a language tag and
\* blank lines around it.
C19_Witness ==
    /\ ret.done
    /\ ret.by = "translate"
    /\ arg.x.tag = "yaml"
    /\ arg.x.padded
    /\ arg.x.body = Dump(Translation(Profile(1)))
    /\ ret.fenced = Translation(Profile(1))

(***************************************************************************)
(* Properties of the bio command (SpecRequests).                           *)
(***************************************************************************)
\* C20: a Bio is never persisted: whatever bio requests have run, the cache
\* file, the one file a later request reads, holds no Bio.
C20_BioNeverPersisted ==
    Exists(files, CACHE_FILE) => SafeLoad(files[CACHE_FILE].text).shape # "bio"

(***************************************************************************)
(* Properties of the bio command's choice of selector (SpecRequests).      *)
(***************************************************************************)
\* A bio request that loaded its source and so came to select a Bio.
BioSelected == IsBio(request) /\ source.state = "ok"

\* C21 as claimed: a bio request made with no credential selects its Bio
\* with the deterministic selector and without a remote call, and does not
\* end in the exit for a missing credential; a bio request made with a
\* credential selects its Bio by one remote condense call and not with the
\* deterministic selector.
C21_BioNeverFailsForCredential ==
    BioSelected =>
        IF request.key
        THEN /\ request.select.via = "remote"
             /\ request.select.remote_calls = 1
        ELSE /\ request.select.via = "deterministic"
             /\ request.select.remote_calls = 0
             /\ request.err # "SystemExit"

\* C21 as amended: with no credential the Bio is selected by the
\* deterministic selector, without a remote call and without an error, and
\* the request ends in the exit for a missing credential only when it is
\* for "de" and translate_cv found no cache file to fall back to; with a
\* credential the Bio is selected by one remote condense call.
C21_BioContentSource ==
    BioSelected =>
        IF request.key
        THEN /\ request.select.via = "remote"
             /\ request.select.remote_calls = 1
        ELSE /\ request.select.via = "deterministic"
             /\ request.select.remote_calls = 0
             /\ request.select.err = ""
             /\ request.select.v.shape = "bio"
             /\ request.lang = "en" => request.err = ""
             /\ request.err = "SystemExit"
                  <=> /\ request.lang = "de"
                      /\ call.made
                      /\ call.before = Absent

\* A bio request for "de" made with no credential and no cache file: the
\* Bio was selected locally and the request ended in the exit.
C21_Witness ==
    /\ BioSelected
    /\ ~request.key
    /\ request.lang = "de"
    /\ request.select.via = "deterministic"
    /\ request.err = "SystemExit"

IsBuild(r) == r.made /\ "cmd" \notin DOMAIN r

IsTailor(r) == r.made /\ "cmd" \in DOMAIN r /\ r.cmd = "tailor"

\* C23: after any sequence of build, bio and tailor requests, the
\* translate_cv call of a build request in cache-preferring mode returns a
\* translation of a full Profile, never a Bio or a tailored Profile that an
\* earlier bio or tailor request left in the cache file.
C23_CacheModeBuildServesProfile ==
    (IsBuild(request) /\ call.made /\ ~call.retranslate /\ call.err = "")
        => call.result.shape = "profile"

(***************************************************************************)
(* Properties of the translation step of the build and bio commands        *)
(* (SpecRequests).                                                         *)
(***************************************************************************)
\* C24: the document a bio request for "de" writes holds a translation of
\* the Bio selected in that same request, whatever the credential and the
\* cache were, and never another record found in the cache file.
C24_GermanBioOfThisRequest ==
    (IsBio(request) /\ request.lang = "de"
       /\ BioPath("de") \in request.written)
        => files[BioPath("de")] = Docx(Translation(request.select.v), "de")

\* C25: a failed translation leaves the cache as it was.  When the remote
\* call of translate_cv raises, or the unwrapped answer does not parse, the
\* cache file is after the call exactly what it was before it: the same
\* content if there was one, and absent if it was absent.
C25_FailedTranslationKeepsCache ==
    /\ (call.made /\ call.via = "remote" /\ call.err # "")
         => /\ call.err \in {"RemoteError", "ParseError"}
            /\ call.after = call.before
            /\ call.others_kept
    /\ \A cv \in {Profile(n) : n \in Versions}
               \cup {Condensed(Profile(n)) : n \in Versions} :
         \A resp \in Responses(cv), retranslate \in BOOLEAN, key \in BOOLEAN :
           LET t == translate_cv(cv, retranslate, files, key, resp)
           IN  t.err # "" => t.fs = files

\* A translation failed on an answer that is no YAML while a cache file
\* existed.
C25_Witness ==
    /\ call.made
    /\ call.via = "remote"
    /\ call.err = "ParseError"
    /\ call.before.kind = "yaml"
    /\ call.after = call.before

\* A step that is the run of a command: the credential stays and the cache
\* file is not deleted (the two things only the user does).
CommandStep ==
    /\ api_key' = api_key
    /\ ~(Exists(files, CACHE_FILE) /\ ~Exists(files', CACHE_FILE))

\* The languages a request was for.
RequestLangs(r) == IF IsBuild(r) THEN r.langs ELSE <<r.lang>>

\* C26: a request for "en" alone, be it build, bio or tailor, never calls
\* translate_cv: it makes no translation call and leaves the cache file as
\* it was.  A build given no language is a build for "en" and then "de":
\* the German document is never written without the English one, and when
\* the German translation fails the English document has been written.
C26_EnglishNeverTranslates ==
    [][CommandStep =>
         /\ (request'.made /\ RequestLangs(request') = <<"en">>)
              => /\ call' = NoCall
                 /\ files'[CACHE_FILE] = files[CACHE_FILE]
         /\ (IsBuild(request') /\ Len(request'.langs) = 2)
              => /\ request'.langs = <<"en", "de">>
                 /\ DocPath("de") \in request'.written
                      => DocPath("en") \in request'.written
                 /\ (call'.made /\ call'.err # "")
                      => request'.written = {DocPath("en")}]_vars

\* A tailor request for "en" has written its document while a cache file
\* existed.
C26_Witness ==
    /\ IsTailor(request)
    /\ request.lang = "en"
    /\ request.written = {TailoredPath("en")}
    /\ call = NoCall
    /\ Exists(files, CACHE_FILE)

(***************************************************************************)
(* The order of a tailored Profile's experience (SpecTailored).            *)
(***************************************************************************)
\* C27: the experience entries of the tailored Profile tailor_cv returned
\* are rendered in the tailored document in the order they have in that
\* Profile (most relevant first).
C27_TailoredOrderRendered ==
    ret.done =>
        /\ Len(ret.rendered) = Len(ret.experience)
        /\ \A i \in DOMAIN ret.rendered :
             ret.rendered[i] = EntryParagraphs(ret.experience[i])

\* The documents: every file of OUTPUT_DIR but the cache file.
Documents == OutputPaths \ {CACHE_FILE}

\* C28: a tailor request leaves the standard CV document of its language
\* untouched: a standard document that existed before the request exists
\* after it with the same content, and the only document the request
\* creates is the tailored one.
C28_TailorKeepsStandardCV ==
    [][(CommandStep /\ IsTailor(request'))
         => /\ Exists(files, DocPath(request'.lang))
                 => files'[DocPath(request'.lang)] = files[DocPath(request'.lang)]
            /\ \A p \in Documents \ {TailoredPath(request'.lang)} :
                 ~Exists(files, p) => ~Exists(files', p)]_vars

(***************************************************************************)
(* The two translate_cv of the repository (SpecLegacy).                    *)
(***************************************************************************)
\* C29: translate_cv(cv, use_cache=c) of the single-file program and
\* translate_cv(cv, retranslate=not c) of the package, started from the
\* same cache file, the same credential and the same remote answer, both
\* fail or both return the same value, and leave the same cache file.
C29_LegacyEquivalent ==
    ret.done =>
        /\ (ret.legacy.err = "") <=> (ret.package.err = "")
        /\ ret.legacy.result = ret.package.result
        /\ ret.legacy.fs = ret.package.fs

(***************************************************************************)
(* Liveness of the file-watch mode (SpecWatchLive).                        *)
(***************************************************************************)
\* The observer runs and holds no event: every modification made so far
\* has been dispatched to on_modified.
Settled == observer = "running" /\ events = <<>>

\* The watch builds the English document, the source is a Profile, and the
\* English document is not the rendering of that Profile.  (Rendering a
\* Profile for "en" needs no translation and cannot fail.)
StaleDocument ==
    /\ source.state = "ok"
    /\ \E i \in DOMAIN config.langs : config.langs[i] = "en"
    /\ files[DocPath("en")] # Docx(Profile(source.ver), "en")

\* No rebuild on_modified started has ended in an error.
BuildsSucceed == handled.made => handled.err = ""

\* C30: in file-watch mode, when builds succeed, the last modification of
\* the source file is eventually followed by a rebuild that started after
\* it, so that the documents come to reflect the latest source: if no
\* rebuild ever fails, the watch does not stay for ever with every event
\* dispatched and the English document still that of an older source.
C30_LastModificationRebuilt ==
    ([]BuildsSucceed)
        => ((Settled /\ StaleDocument) ~> ~(Settled /\ StaleDocument))

=============================================================================
